---- MODULE Spec2Model ----
(***************************************************************************)
(* A model of the danmaku server's task engine, import pipeline and        *)
(* library tables (src/src/api/ui.py, src/src/crud.py, src/src/main.py).   *)
(*                                                                         *)
(* The TaskManager class itself (src/task_manager.py) is not among the     *)
(* source files: its worker, progress callback and pause/abort operations  *)
(* are modelled from section 4.5 of the specification, each engine         *)
(* operation as one atomic step.  Everything else is translated from the   *)
(* source; handlers are split where the source awaits a database call.     *)
(***************************************************************************)
EXTENDS Integers, Sequences, FiniteSets, TLC

\* ------------------------------------------------------------------ bounds
MaxTasks == 2
MaxRows == 4
MaxChain == 3
MaxLoads == 3
MaxOrder == 4
MaxCrashes == 1
MaxAnime == 3
MaxSources == 3
MaxQueue == 2
MaxNow == 3
MaxCalls == 2

\* ------------------------------------------------------ program constants
\* widths of the fields of f"25{anime_id:06d}{source_order:02d}{episode_index:04d}"
AnimeIdWidth == 6
SourceOrderWidth == 2
EpisodeIndexWidth == 4

\* ------------------------------------------------------------ value spaces
None == "None"
TaskIds == 1..MaxRows
\* the worker holds no task, no request is in flight
NoTask == 0
NoDelete == [task |-> NoTask, stage |-> None, status |-> None]

\* TaskStatus values ('排队中', '运行中', '已暂停', '已完成', '失败')
PENDING == "PENDING"
RUNNING == "RUNNING"
PAUSED == "PAUSED"
COMPLETED == "COMPLETED"
FAILED == "FAILED"

\* descriptions written to task_history.description
DescPending == "waiting"
DescInit == "initializing"
DescProgress == "progress"
DescAborted == "aborted by user"
DescInterrupted == "interrupted by restart"
DescFailed == "task failed"
DescReturned == "task completed"
MsgNoEpisodes == "no episodes found"
MsgImported == "import finished"

NoRow == [status |-> None, description |-> None, finished_at |-> FALSE]

\* (title, season) pairs of Works, and the upstream catalogue
WorkKeys == {"A", "B"}
EpisodeIndexes == {1, 2}
Cids == {"c1"}

Req(p, m, k) == [provider |-> p, media_id |-> m, key |-> k]
NoReq == Req(None, None, None)

\* ---- the cache: Python values, cache keys and TTL settings
PyNone == [t |-> "None", v |-> <<>>]
PyStr(x) == [t |-> "str", v |-> <<x>>]
PyList(xs) == [t |-> "list", v |-> xs]

ScraperKey == "search_tencent_k"
MetadataKey == "tmdb_search_tv_k"
CacheKeys == {ScraperKey, MetadataKey}
ConfigKeys == {"search_ttl_seconds", "metadata_search_ttl_seconds"}
\* the setting that governs the writes of a cache key
TtlKeyOf(key) == IF key = ScraperKey THEN "search_ttl_seconds"
                 ELSE "metadata_search_ttl_seconds"
\* a cached tvid and a list of one result
CacheValues == {PyStr("tv1"), PyList(<<"r1">>)}
\* TTL settings in seconds: the int() of the config_value strings "-1", "0", "2"
Ttls == {-1, 0, 2}
DefaultTtl == 2
NoTtl == -99
NoEntry == [cache_value |-> <<>>, expires_at |-> -99]
NoSet == [value |-> PyNone, at |-> -99, ttl |-> -99]
NoGot == [key |-> None, value |-> PyNone, at |-> -99, ttl |-> -99]

\* no id computation is being examined
NoProbe == [a |-> <<>>, b |-> <<>>, id_a |-> <<>>, id_b |-> <<>>]
\* the import requests of the library specification
LibRequests == {Req("tencent", "a", "A"), Req("iqiyi", "b", "B"), Req("tencent", "a", "B")}
\* the import request of the task-engine specification
EngineRequest == Req("tencent", "a", "A")

VARIABLES
    \* library tables
    anime,            \* set of [id, key]
    anime_sources,    \* set of [id, anime_id, provider_name, media_id, is_favorited]
    episode,          \* set of [id, source_id, episode_index, comment_count]
    comment,          \* set of [episode_id, cid]
    next_anime_id,    \* AUTO_INCREMENT of anime.id
    next_source_id,   \* AUTO_INCREMENT of anime_sources.id
    \* task_history table and the task engine
    task_history,     \* [TaskIds -> row], NoRow when absent
    next_task,        \* number of task ids handed out
    queue,            \* the engine's FIFO of submitted tasks
    current,          \* the task the worker holds, or NoTask
    pause_event,      \* TRUE = set (not paused)
    abort_flag,
    phase,            \* "boot" | "reconciled" | "up"
    crashes,
    run,              \* position and locals of the running task coroutine
    abort_h,          \* in-flight abort request: task id read as RUNNING, or NoTask
    delete_h,         \* in-flight delete request: [task, stage, status], or NoDelete
    \* history variables used by the properties
    outcome,          \* [TaskIds -> [exc, msg] the coroutine of the task ended with]
    wrote,            \* the running task has written to a library table
    interrupted,      \* rows that were RUNNING or PAUSED when the process died
    assigned,         \* [req, episode_index, id]: the first id an import returned for it
    \* the clock and the inputs of the pure functions
    now,              \* NOW() / datetime.now(), in seconds
    probe,            \* two (anime_id, source_order, episode_index) triples and their ids
    \* the cache
    cache_data,       \* [CacheKeys -> [cache_value, expires_at]], NoEntry when absent
    config,           \* config table: the TTL settings, as the strings stored
    ttl_config,       \* BaseScraper.ttl_config of the scraper instance, NoTtl when unset
    last_set,         \* [CacheKeys -> [value, at, ttl] of the last write], NoSet after a delete
    got,              \* what the last get_cache returned: [key, value, at]
    calls,            \* the reassociate calls made: [a, b, ok, pre, post]
    before,           \* [run, lib]: the operation that ended last and the tables it left
    \* the scraper registry
    scrapers,         \* scrapers table: set of [provider_name, display_order, is_enabled]
    discovered,       \* the provider names of the last discovery, in order
    loads,            \* number of discoveries synced to the table
    \* requests in flight
    import_h,         \* in-flight import request after its check: [req, target], or NoImport
    \* the scraper instance under examination
    searched,         \* its provider and how its last search ended: [provider, response, raised, value]
    \* the keyword under examination
    parsed,           \* [keyword, done, result of parse_search_keyword]
    \* one scraper instance and the coroutines that call it
    limiter,          \* its lock, its _last_request_time, the clock and the callers of its HTTP client
    session,          \* its cookie refreshes and the callers of _request_with_retry
    \* tables outside the library and the transactions on them
    tmdb,             \* tmdb_episode_mapping of one group: committed rows, the saving transaction, a reader
    oauth,            \* oauth_states: rows, row locks and the consuming transactions
    reassoc           \* the reassociation in progress: its position, its locals, its transaction

libvars == <<anime, anime_sources, episode, comment, next_anime_id, next_source_id>>
enginevars == <<task_history, next_task, queue, current, pause_event, abort_flag,
                phase, crashes, abort_h, delete_h, outcome, interrupted>>
cachevars == <<cache_data, config, ttl_config, last_set, got>>
purevars == <<now, probe, cachevars, calls>>
progvars == <<libvars, enginevars, run, wrote, assigned>>
netvars == <<limiter, session>>
dbvars == <<tmdb, oauth, reassoc>>
extvars == <<scrapers, discovered, loads, import_h, searched, parsed, netvars, dbvars>>
auxvars == <<purevars, before, extvars>>
vars == <<progvars, auxvars>>

\* ------------------------------------------------------------ episode ids
RECURSIVE Digits(_)
\* decimal digits of n >= 0, as str(n)
Digits(n) == IF n < 10 THEN <<n>> ELSE Digits(n \div 10) \o <<n % 10>>

RECURSIVE Zeros(_)
Zeros(k) == IF k <= 0 THEN <<>> ELSE <<0>> \o Zeros(k - 1)

\* f"{n:0wd}": zero-padded to at least w digits, never truncated
Pad(n, w) == Zeros(w - Len(Digits(n))) \o Digits(n)

\* int(f"25{anime_id:06d}{source_order:02d}{episode_index:04d}"); the leading
\* "25" has no zero in front, so the digit string and the integer determine
\* each other and the id is kept as its digit string
NewEpisodeId(anime_id, source_order, episode_index) ==
    <<2, 5>> \o Pad(anime_id, AnimeIdWidth) \o Pad(source_order, SourceOrderWidth)
             \o Pad(episode_index, EpisodeIndexWidth)

\* ----------------------------------------------------------- table queries
SetMin(S) == CHOOSE x \in S : \A y \in S : x <= y

\* sorted sequence of a finite set of integers (ORDER BY id ASC)
RECURSIVE SortedSeq(_)
SortedSeq(S) == IF S = {} THEN <<>> ELSE <<SetMin(S)>> \o SortedSeq(S \ {SetMin(S)})

\* position of x in sequence s (list.index(x) + 1), 0 when absent
IndexOf(s, x) == IF \E i \in 1..Len(s) : s[i] = x
                 THEN SetMin({i \in 1..Len(s) : s[i] = x}) ELSE 0

SourcesOfAnime(aid) == {s \in anime_sources : s.anime_id = aid}
EpisodesOfSource(sid) == {e \in episode : e.source_id = sid}
CommentsOfEpisode(eid) == {c \in comment : c.episode_id = eid}

\* SELECT 1 FROM anime_sources WHERE provider_name = %s AND media_id = %s LIMIT 1
check_source_exists_by_media_id(p, m) ==
    \E s \in anime_sources : s.provider_name = p /\ s.media_id = m

\* ------------------------------------------------- the running coroutine
IdleRun == [pc |-> "idle", kind |-> None, req |-> NoReq, target |-> 0, eps |-> <<>>,
            i |-> 0, fetched |-> 0,
            anime_id |-> 0, source_id |-> 0, episode_db_id |-> <<>>, affected_rows |-> 0,
            new_comments |-> {}, transport |-> FALSE,
            exc |-> None, msg |-> None, at |-> None]

\* the four library tables, and the record of no ended operation
Lib == <<anime, anime_sources, episode, comment>>
NoBefore == [run |-> IdleRun, lib |-> <<{}, {}, {}, {}>>, now |-> 0]

\* the coroutine has ended: by return, by TaskSuccess or by another exception
Ended(r) == r.pc = "ended"
Raise(r, e, m) == [r EXCEPT !.pc = "ended", !.exc = e, !.msg = m, !.at = r.pc]

\* ------------------------------------------------ crud: find-or-create Work
\* SELECT id ... FROM anime WHERE title = %s AND season = %s; fetchone()
AnimeByKey(k) == {a.id : a \in {x \in anime : x.key = k}}

\* the id get_or_create_anime returns and the anime table it leaves
get_or_create_anime(k) ==
    IF AnimeByKey(k) # {}
    THEN [id |-> SetMin(AnimeByKey(k)), table |-> anime, created |-> FALSE]
    ELSE [id |-> next_anime_id, table |-> anime \cup {[id |-> next_anime_id, key |-> k]},
          created |-> TRUE]

\* ---------------------------------------------- crud: find-or-create Source
SourceByNaturalKey(aid, p, m) ==
    {s.id : s \in {x \in anime_sources :
                     x.anime_id = aid /\ x.provider_name = p /\ x.media_id = m}}

\* INSERT IGNORE INTO anime_sources ...; SELECT id ... ; return source[0]
link_source_to_anime(aid, p, m) ==
    IF SourceByNaturalKey(aid, p, m) # {}
    THEN [id |-> SetMin(SourceByNaturalKey(aid, p, m)), table |-> anime_sources,
          created |-> FALSE]
    ELSE [id |-> next_source_id,
          table |-> anime_sources \cup
                      {[id |-> next_source_id, anime_id |-> aid, provider_name |-> p,
                        media_id |-> m, is_favorited |-> FALSE]},
          created |-> TRUE]

\* --------------------------------------------- crud: find-or-create Episode
EpisodeByNaturalKey(sid, idx) ==
    {e \in episode : e.source_id = sid /\ e.episode_index = idx}

\* SELECT id FROM anime_sources WHERE anime_id = %s ORDER BY id ASC;
\* source_ids.index(source_id) + 1, 0 standing for the ValueError
SourceOrder(aid, sid) == IndexOf(SortedSeq({s.id : s \in SourcesOfAnime(aid)}), sid)

\* an episode insert that does not look the (source_id, episode_index) up first
create_episode(aid, sid, idx) ==
    LET new_episode_id == NewEpisodeId(aid, SourceOrder(aid, sid), idx)
    IN  IF \E e \in episode : e.id = new_episode_id
        THEN [ok |-> FALSE, id |-> <<>>, table |-> episode]
        ELSE [ok |-> TRUE, id |-> new_episode_id,
              table |-> episode \cup {[id |-> new_episode_id, source_id |-> sid,
                                       episode_index |-> idx, comment_count |-> 0,
                                       fetched_at |-> now]}]

\* the result of create_episode_if_not_exists: the id it returns and the
\* episode table it leaves, or the exception it raises
create_episode_if_not_exists(aid, sid, idx) ==
    IF EpisodeByNaturalKey(sid, idx) # {}
    THEN [ok |-> TRUE, id |-> (CHOOSE e \in EpisodeByNaturalKey(sid, idx) : TRUE).id,
          table |-> episode]
    ELSE IF SourceOrder(aid, sid) = 0
    THEN [ok |-> FALSE, id |-> <<>>, table |-> episode]     \* ValueError
    ELSE LET new_episode_id == NewEpisodeId(aid, SourceOrder(aid, sid), idx)
         IN  IF \E e \in episode : e.id = new_episode_id
             THEN [ok |-> FALSE, id |-> <<>>, table |-> episode]   \* duplicate PRIMARY KEY
             ELSE [ok |-> TRUE, id |-> new_episode_id,
                   table |-> episode \cup {[id |-> new_episode_id, source_id |-> sid,
                                            episode_index |-> idx, comment_count |-> 0,
                                       fetched_at |-> now]}]

\* --------------------------------------------------- crud: comment insert
\* INSERT IGNORE INTO comment: the cids not yet stored for the episode
NewCids(eid, cids) == {c \in cids : [episode_id |-> eid, cid |-> c] \notin comment}

\* UPDATE episode SET comment_count = comment_count + %s WHERE id = %s
AddCommentCount(table, eid, n) ==
    {IF e.id = eid THEN [e EXCEPT !.comment_count = @ + n] ELSE e : e \in table}

\* an insert that reports every comment it was given as inserted
bulk_insert_comments_counting_all(eid, cids) ==
    [comment |-> comment \cup {[episode_id |-> eid, cid |-> c] : c \in NewCids(eid, cids)},
     affected_rows |-> Cardinality(cids)]

\* bulk_insert_comments up to its executemany: the comment table it leaves and
\* affected_rows; the pool runs with autocommit = True, so the INSERT is
\* committed before the UPDATE of comment_count is sent
bulk_insert_comments(eid, cids) ==
    [comment |-> comment \cup {[episode_id |-> eid, cid |-> c] : c \in cids},
     affected_rows |-> Cardinality(NewCids(eid, cids))]

\* ------------------------------------------------------ crud: task_history
Row(st, d, f) == [status |-> st, description |-> d, finished_at |-> f]

\* INSERT INTO task_history (id, title, status, description)
create_task_in_history(th, t, st, d) == [th EXCEPT ![t] = Row(st, d, FALSE)]

\* UPDATE task_history SET status, progress, description WHERE id = %s
update_task_progress_in_history(th, t, st, d) ==
    [th EXCEPT ![t] = IF @ = NoRow THEN @ ELSE [@ EXCEPT !.status = st, !.description = d]]

\* UPDATE task_history SET status, description, progress = 100, finished_at = NOW()
finalize_task_in_history(th, t, st, d) ==
    [th EXCEPT ![t] = IF @ = NoRow THEN @ ELSE Row(st, d, TRUE)]

\* UPDATE task_history SET status = %s WHERE id = %s
update_task_status(th, t, st) ==
    [th EXCEPT ![t] = IF @ = NoRow THEN @ ELSE [@ EXCEPT !.status = st]]

\* DELETE FROM task_history WHERE id = %s
delete_task_from_history(th, t) == [th EXCEPT ![t] = NoRow]

\* a reconciliation that overlooks the RUNNING rows
mark_paused_tasks_as_failed(th) ==
    [t \in TaskIds |-> IF th[t].status = PAUSED
                       THEN Row(FAILED, DescInterrupted, TRUE) ELSE th[t]]

\* a reconciliation that overlooks the PAUSED rows
mark_running_tasks_as_failed(th) ==
    [t \in TaskIds |-> IF th[t].status = RUNNING
                       THEN Row(FAILED, DescInterrupted, TRUE) ELSE th[t]]

\* a startup that reconciles nothing
mark_no_tasks_as_failed(th) == th

\* UPDATE task_history SET status = '失败', description = '因程序重启而中断',
\* finished_at = NOW() WHERE status IN ('运行中', '已暂停')
mark_interrupted_tasks_as_failed(th) ==
    [t \in TaskIds |-> IF th[t].status \in {RUNNING, PAUSED}
                       THEN Row(FAILED, DescInterrupted, TRUE) ELSE th[t]]

\* ----------------------------------------------------------- initial state
\* no import request is between its check and its submit
NoImport == [req |-> NoReq, target |-> 0]

\* no scraper instance is under examination
NoSearch == [provider |-> None, response |-> None, raised |-> None, value |-> PyNone]

\* the state outside the library and the task engine
InitRegistry ==
    /\ scrapers = {}
    /\ discovered = <<>>
    /\ loads = 0
    /\ import_h = NoImport
\* a scraper instance nobody calls
MaxCallers == 3
Callers == 1..MaxCallers
MinInterval == 2
NoSent == [caller |-> 0, locked |-> TRUE, spaced |-> TRUE]
IdleLimiter == [scraper |-> None, lock |-> 0, last |-> 0, clock |-> MinInterval,
                pc |-> [c \in Callers |-> "idle"], wake |-> [c \in Callers |-> 0],
                inflight |-> 0, finished |-> 0, sent |-> NoSent]
NoCall == [pc |-> "idle", first |-> None, returned |-> None, sends |-> 0,
           refreshes |-> 0, refreshed |-> FALSE, new_cookie |-> 0]
IdleSession == [call |-> [c \in Callers |-> NoCall], cookie |-> 0, jar |-> 0]
InitNet == limiter = IdleLimiter /\ session = IdleSession

\* the mapping table of a group nobody saves or reads
NoSave == [pc |-> "idle", details |-> <<>>, old |-> {}, view |-> {}]
NoRead == [rows |-> {}, during |-> "idle"]
IdleTmdb == [committed |-> {}, saver |-> NoSave, read |-> NoRead, saves |-> 0]
\* the state table nobody consumes
MaxStates == 2
StateKeys == 1..MaxStates
NoConsume == [pc |-> "idle", state |-> 0, result |-> 0, returned |-> 0]
IdleOauth == [rows |-> {}, lock |-> [k \in StateKeys |-> 0], created |-> 0, clock |-> 0,
              consumer |-> [c \in Callers |-> NoConsume]]
\* no reassociation has been requested
NoTables == [anime |-> {}, anime_sources |-> {}, episode |-> {}, comment |-> {}]
IdleReassoc == [pc |-> "idle", a |-> 0, b |-> 0, todo |-> <<>>, view |-> NoTables,
                pre |-> NoTables, ok |-> FALSE, swallowed |-> FALSE, calls |-> 0]
InitDb == tmdb = IdleTmdb /\ oauth = IdleOauth /\ reassoc = IdleReassoc

\* no keyword is under examination
Null == -1
NoParse == [keyword |-> <<>>, done |-> FALSE,
            result |-> [title |-> <<>>, season |-> Null, episode |-> Null]]

InitExt ==
    /\ InitRegistry
    /\ searched = NoSearch
    /\ parsed = NoParse
    /\ InitNet
    /\ InitDb

Constructed ==
    /\ anime = {} /\ anime_sources = {} /\ episode = {} /\ comment = {}
    /\ next_anime_id = 1 /\ next_source_id = 1
    /\ task_history = [t \in TaskIds |-> NoRow]
    /\ next_task = 0
    /\ queue = <<>>
    /\ current = NoTask
    /\ pause_event = TRUE
    /\ abort_flag = FALSE
    /\ phase = "boot"
    /\ crashes = 0
    /\ run = IdleRun
    /\ abort_h = NoTask
    /\ delete_h = NoDelete
    /\ outcome = [t \in TaskIds |-> [exc |-> None, msg |-> None]]
    /\ wrote = FALSE
    /\ interrupted = {}
    /\ assigned = {}

\* an empty cache_data table and the default TTL settings
EmptyCache ==
    /\ cache_data = [k \in CacheKeys |-> NoEntry]
    /\ config = [ck \in ConfigKeys |-> DefaultTtl]
    /\ ttl_config = NoTtl
    /\ last_set = [k \in CacheKeys |-> NoSet]
    /\ got = NoGot

Init ==
    /\ Constructed
    /\ now = 0
    /\ probe = NoProbe
    /\ EmptyCache
    /\ calls = <<>>
    /\ before = NoBefore
    /\ InitExt

\* ------------------------------------------------- lifespan (src/main.py)
\* interrupted_count = await crud.mark_interrupted_tasks_as_failed(pool)
StartupReconcile ==
    /\ phase = "boot"
    /\ task_history' = mark_interrupted_tasks_as_failed(task_history)
    /\ phase' = "reconciled"
    /\ UNCHANGED auxvars
    /\ UNCHANGED <<libvars, next_task, queue, current, pause_event, abort_flag, crashes,
                   run, abort_h, delete_h, outcome, wrote, interrupted, assigned>>

\* app.state.task_manager = TaskManager(pool); app.state.task_manager.start()
StartupEngine ==
    /\ phase = "reconciled"
    /\ phase' = "up"
    /\ queue' = <<>> /\ current' = NoTask /\ pause_event' = TRUE /\ abort_flag' = FALSE
    /\ UNCHANGED auxvars
    /\ UNCHANGED <<libvars, task_history, next_task, crashes, run, abort_h, delete_h,
                   outcome, wrote, interrupted, assigned>>

\* the process is killed: the engine, the running coroutine and the requests
\* in flight are lost, the tables stay
Crash ==
    /\ phase = "up"
    /\ crashes < MaxCrashes
    /\ crashes' = crashes + 1
    /\ phase' = "boot"
    /\ interrupted' = {t \in TaskIds : task_history[t].status \in {RUNNING, PAUSED}}
    /\ queue' = <<>> /\ current' = NoTask /\ pause_event' = TRUE /\ abort_flag' = FALSE
    /\ run' = IdleRun /\ abort_h' = NoTask /\ delete_h' = NoDelete /\ wrote' = FALSE
    /\ UNCHANGED auxvars
    /\ UNCHANGED <<libvars, task_history, next_task, outcome, assigned>>

\* ------------------------------------------- TaskManager (specification 4.5)
Task(t, k, r, tg) == [id |-> t, kind |-> k, req |-> r, target |-> tg, episode_id |-> <<>>]

\* submit_task: a PENDING row and an entry at the tail of the queue
submit_task(k, r, tg) ==
    /\ phase = "up"
    /\ Len(queue) < MaxQueue
    /\ next_task' = next_task + 1
    /\ task_history' = create_task_in_history(task_history, next_task + 1, PENDING, DescPending)
    /\ queue' = Append(queue, Task(next_task + 1, k, r, tg))
    /\ UNCHANGED auxvars
    /\ UNCHANGED <<libvars, current, pause_event, abort_flag, phase, crashes, run,
                   abort_h, delete_h, outcome, wrote, interrupted, assigned>>

\* POST /import: a full import (current_episode_index is None, target 0) is
\* refused with 409 when the (provider, media_id) is already in the library
import_from_provider(r, tg) ==
    /\ tg = 0 => ~check_source_exists_by_media_id(r.provider, r.media_id)
    /\ submit_task("import", r, tg)

\* the first statement of the coroutine of each kind of task
FirstPc(kind) ==
    CASE kind = "import" -> "tick_list"
      [] kind = "refresh" -> "r_info"
      [] kind = "refresh_episode" -> "tick_e_info"
      [] kind = "reorder" -> "tick_o_list"
      [] OTHER -> "tick_delete"

\* the worker takes the head of the queue, marks it RUNNING and starts its coroutine
WorkerPull ==
    /\ phase = "up"
    /\ current = NoTask
    /\ queue # <<>>
    /\ current' = Head(queue).id
    /\ queue' = Tail(queue)
    /\ task_history' = update_task_progress_in_history(task_history, Head(queue).id,
                                                       RUNNING, DescInit)
    /\ pause_event' = TRUE
    /\ abort_flag' = FALSE
    /\ run' = [IdleRun EXCEPT !.pc = FirstPc(Head(queue).kind),
                              !.kind = Head(queue).kind, !.req = Head(queue).req,
                              !.target = Head(queue).target,
                              !.episode_db_id = Head(queue).episode_id]
    /\ wrote' = FALSE
    /\ UNCHANGED auxvars
    /\ UNCHANGED <<libvars, next_task, phase, crashes, abort_h, delete_h, outcome,
                   interrupted, assigned>>

\* the statement a coroutine resumes at after each of its progress ticks
TickPcs == {"tick_list", "tick_episode", "tick_comments", "tick_write", "tick_delete",
            "tick_clear", "tick_e_info", "tick_e_fetch", "tick_e_compare", "tick_e_write",
            "tick_o_list", "tick_o_episode"}
AfterTick(pc) ==
    CASE pc = "tick_list" -> "get_episodes"
      [] pc = "tick_episode" -> "tick_comments"
      [] pc = "tick_comments" -> "get_comments"
      [] pc = "tick_write" -> "w_anime"
      [] pc = "tick_delete" -> "d_delete"
      [] pc = "tick_clear" -> "r_clear_comments"
      [] pc = "tick_e_info" -> "e_info"
      [] pc = "tick_e_fetch" -> "e_get_comments"
      [] pc = "tick_e_compare" -> "e_existing"
      [] pc = "tick_e_write" -> "e_insert"
      [] pc = "tick_o_list" -> "o_list"
      [] pc = "tick_o_episode" -> "o_update"

\* a tick that does not look at the abort flag
TickResultUnchecked(r, flag) == [r EXCEPT !.pc = AfterTick(r.pc)]

\* the coroutine after a tick: the cancellation sentinel when the abort flag
\* is set, the next statement otherwise
TickResult(r, flag) ==
    IF flag THEN Raise(r, "cancelled", DescAborted) ELSE [r EXCEPT !.pc = AfterTick(r.pc)]

\* progress_callback: the row is updated, the call blocks while the pause
\* event is cleared, and raises the cancellation sentinel when the abort flag is set
progress_callback ==
    /\ phase = "up"
    /\ current # NoTask
    /\ run.pc \in TickPcs
    /\ pause_event
    /\ task_history' = update_task_progress_in_history(task_history, current,
                                                       RUNNING, DescProgress)
    /\ run' = TickResult(run, abort_flag)
    /\ UNCHANGED auxvars
    /\ UNCHANGED <<libvars, next_task, queue, current, pause_event, abort_flag, phase,
                   crashes, abort_h, delete_h, outcome, wrote, interrupted, assigned>>

\* the status and description the worker writes for the way the coroutine ended
FinalStatus(exc) == IF exc \in {"success", None} THEN COMPLETED ELSE FAILED
FinalDescription(r) == IF r.exc = None THEN DescReturned ELSE r.msg

\* the worker translates the end of the coroutine into the final row and
\* turns to the next task
EndOfTask ==
    /\ phase = "up"
    /\ current # NoTask
    /\ Ended(run)
    /\ task_history' = finalize_task_in_history(task_history, current,
                                                FinalStatus(run.exc), FinalDescription(run))
    /\ outcome' = [outcome EXCEPT ![current] = [exc |-> run.exc, msg |-> run.msg]]
    /\ current' = NoTask
    /\ run' = IdleRun
    /\ pause_event' = TRUE
    /\ abort_flag' = FALSE
    /\ wrote' = FALSE
    /\ UNCHANGED purevars
    /\ UNCHANGED <<libvars, next_task, queue, phase, crashes, abort_h, delete_h,
                   interrupted, assigned>>

WorkerFinalize == EndOfTask /\ UNCHANGED <<before, extvars>>

\* the same step, with the ended coroutine and the tables it left kept as history
WorkerFinalizeKept ==
    EndOfTask /\ before' = [run |-> run, lib |-> Lib, now |-> now] /\ UNCHANGED extvars

\* ------------------------------------ generic_import_task (src/src/api/ui.py)
Running(pc) == phase = "up" /\ current # NoTask /\ run.pc = pc

\* the upstream catalogue: get_episodes(media_id, target_episode_index)
UpstreamEpisodes(tg) == IF tg = 0 THEN SortedSeq(EpisodeIndexes) ELSE <<tg>>

\* episodes = await scraper.get_episodes(...): a list, an empty list
\* (raise TaskSuccess(msg)) or an exception of the network call
GetEpisodes ==
    /\ Running("get_episodes")
    /\ \E res \in {"list", "empty", "error"} :
         run' = CASE res = "list" ->
                       [run EXCEPT !.eps = [j \in 1..Len(UpstreamEpisodes(run.target)) |->
                                              [index |-> UpstreamEpisodes(run.target)[j],
                                               comments |-> {}]],
                                   !.i = 1, !.pc = "tick_episode"]
                  [] res = "empty" -> Raise(run, "success", MsgNoEpisodes)
                  [] res = "error" -> Raise(run, "error", DescFailed)
    /\ UNCHANGED auxvars
    /\ UNCHANGED <<libvars, enginevars, wrote, assigned>>

\* a fetch loop that hands each episode to the write phase as soon as it arrived
AfterCommentsWriteThrough(i, n) == "tick_write"

\* where the fetch loop goes after the comments of episode i of n have arrived
AfterComments(i, n) == IF i < n THEN "tick_episode" ELSE "tick_write"

\* comments = await scraper.get_comments(...); episode_comment_data.append(...)
GetComments ==
    /\ Running("get_comments")
    /\ \/ \E cs \in SUBSET Cids :
            run' = [run EXCEPT !.eps[run.i].comments = cs, !.i = run.i + 1,
                               !.fetched = run.fetched + 1,
                               !.pc = AfterComments(run.i, Len(run.eps))]
       \/ run' = Raise(run, "error", DescFailed)
    /\ UNCHANGED auxvars
    /\ UNCHANGED <<libvars, enginevars, wrote, assigned>>

\* anime_id = await crud.get_or_create_anime(...)
W_Anime ==
    /\ Running("w_anime")
    /\ get_or_create_anime(run.req.key).created => next_anime_id <= MaxAnime
    /\ anime' = get_or_create_anime(run.req.key).table
    /\ next_anime_id' = IF get_or_create_anime(run.req.key).created
                        THEN next_anime_id + 1 ELSE next_anime_id
    /\ run' = [run EXCEPT !.anime_id = get_or_create_anime(run.req.key).id,
                          !.pc = "w_source"]
    /\ wrote' = (wrote \/ get_or_create_anime(run.req.key).created)
    /\ UNCHANGED auxvars
    /\ UNCHANGED <<anime_sources, episode, comment, next_source_id, enginevars, assigned>>

\* source_id = await crud.link_source_to_anime(pool, anime_id, provider, media_id)
LinkResult == link_source_to_anime(run.anime_id, run.req.provider, run.req.media_id)
W_Source ==
    /\ Running("w_source")
    /\ LinkResult.created => next_source_id <= MaxSources
    /\ anime_sources' = LinkResult.table
    /\ next_source_id' = IF LinkResult.created THEN next_source_id + 1 ELSE next_source_id
    /\ run' = [run EXCEPT !.source_id = LinkResult.id, !.i = 1, !.pc = "w_episode"]
    /\ wrote' = (wrote \/ LinkResult.created)
    /\ UNCHANGED auxvars
    /\ UNCHANGED <<anime, episode, comment, next_anime_id, enginevars, assigned>>

\* the first id an import returned for (request, episode_index) is remembered
Remember(r, idx, id) ==
    IF \E a \in assigned : a.req = r /\ a.episode_index = idx THEN assigned
    ELSE assigned \cup {[req |-> r, episode_index |-> idx, id |-> id]}

\* episode_db_id = await crud.get_or_create_episode(pool, source_id, index, ...):
\* crud.py defines the operation as create_episode_if_not_exists
EpisodeResult == create_episode_if_not_exists(run.anime_id, run.source_id,
                                              run.eps[run.i].index)
\* for data in episode_comment_data: ... if not comments: continue
AfterEpisode(r, j) ==
    IF j > Len(r.eps) THEN Raise(r, "success", MsgImported)
    ELSE [r EXCEPT !.i = j, !.pc = "w_episode"]
W_Episode ==
    /\ Running("w_episode")
    /\ run.i <= Len(run.eps)
    /\ IF EpisodeResult.ok
       THEN /\ episode' = EpisodeResult.table
            /\ assigned' = Remember(run.req, run.eps[run.i].index, EpisodeResult.id)
            /\ run' = IF run.eps[run.i].comments = {}
                      THEN AfterEpisode([run EXCEPT !.episode_db_id = EpisodeResult.id],
                                        run.i + 1)
                      ELSE [run EXCEPT !.episode_db_id = EpisodeResult.id,
                                       !.pc = "w_comments"]
            /\ wrote' = (wrote \/ episode' # episode)
       ELSE /\ run' = Raise(run, "error", DescFailed)
            /\ UNCHANGED <<episode, assigned, wrote>>
    /\ UNCHANGED auxvars
    /\ UNCHANGED <<anime, anime_sources, comment, next_anime_id, next_source_id, enginevars>>

\* added_count = await crud.bulk_insert_comments(pool, episode_db_id, comments):
\* the executemany of the INSERT IGNORE
InsertResult == bulk_insert_comments(run.episode_db_id, run.eps[run.i].comments)
W_Comments ==
    /\ Running("w_comments")
    /\ comment' = InsertResult.comment
    /\ run' = IF InsertResult.affected_rows > 0
              THEN [run EXCEPT !.affected_rows = InsertResult.affected_rows,
                               !.pc = "w_count"]
              ELSE AfterEpisode(run, run.i + 1)
    /\ wrote' = (wrote \/ comment' # comment)
    /\ UNCHANGED auxvars
    /\ UNCHANGED <<anime, anime_sources, episode, next_anime_id, next_source_id,
                   enginevars, assigned>>

\* if affected_rows > 0: UPDATE episode SET comment_count = comment_count + %s
W_Count ==
    /\ Running("w_count")
    /\ episode' = AddCommentCount(episode, run.episode_db_id, run.affected_rows)
    /\ run' = AfterEpisode([run EXCEPT !.affected_rows = 0], run.i + 1)
    /\ wrote' = TRUE
    /\ UNCHANGED auxvars
    /\ UNCHANGED <<anime, anime_sources, comment, next_anime_id, next_source_id,
                   enginevars, assigned>>

\* ------------------------------------- delete_source_task (src/src/api/ui.py)
\* the tables after the source, its episodes and their comments are deleted
delete_anime_source(sid) ==
    [anime_sources |-> {x \in anime_sources : x.id # sid},
     episode |-> {e \in episode : e.source_id # sid},
     comment |-> {c \in comment :
                    c.episode_id \notin {e.id : e \in EpisodesOfSource(sid)}}]

\* the transaction of the task: TaskSuccess either way
D_Delete ==
    /\ Running("d_delete")
    /\ anime_sources' = delete_anime_source(run.target).anime_sources
    /\ episode' = delete_anime_source(run.target).episode
    /\ comment' = delete_anime_source(run.target).comment
    /\ run' = Raise(run, "success", MsgImported)
    /\ wrote' = TRUE
    /\ UNCHANGED auxvars
    /\ UNCHANGED <<anime, next_anime_id, next_source_id, enginevars, assigned>>

\* DELETE /library/source/{source_id}: the deletion is submitted as a task
delete_source_from_anime(sid) ==
    /\ \E x \in anime_sources : x.id = sid
    /\ submit_task("delete_source", NoReq, sid)

\* ------------------------------------------ direct library calls (crud.py)
\* toggle_source_favorite_status: clear the siblings, flip the target
toggle_source_favorite_status(sid) ==
    LET anime_id == (CHOOSE x \in anime_sources : x.id = sid).anime_id
    IN  {IF x.id = sid THEN [x EXCEPT !.is_favorited = ~x.is_favorited]
         ELSE IF x.anime_id = anime_id THEN [x EXCEPT !.is_favorited = FALSE]
         ELSE x : x \in anime_sources}

ToggleFavorite(sid) ==
    /\ phase = "up"
    /\ \E x \in anime_sources : x.id = sid
    /\ anime_sources' = toggle_source_favorite_status(sid)
    /\ UNCHANGED auxvars
    /\ UNCHANGED <<anime, episode, comment, next_anime_id, next_source_id, enginevars,
                   run, wrote, assigned>>

\* the sources of source_anime_id whose UPDATE ... SET anime_id violates
\* UNIQUE (anime_id, provider_name, media_id) at the target
Duplicates(source_anime_id, target_anime_id) ==
    {x \in SourcesOfAnime(source_anime_id) :
        SourceByNaturalKey(target_anime_id, x.provider_name, x.media_id) # {}}

\* a reassociation that leaves the emptied origin Work in place
reassociate_keeping_origin(source_anime_id, target_anime_id) ==
    LET dup == {x.id : x \in Duplicates(source_anime_id, target_anime_id)}
        gone == {e.id : e \in {y \in episode : y.source_id \in dup}}
    IN  [anime |-> anime,
         anime_sources |-> {IF x.anime_id = source_anime_id
                            THEN [x EXCEPT !.anime_id = target_anime_id] ELSE x :
                            x \in {y \in anime_sources : y.id \notin dup}},
         episode |-> {e \in episode : e.source_id \notin dup},
         comment |-> {c \in comment : c.episode_id \notin gone}]

\* a reassociation that moves the duplicate over the target's own source
reassociate_replacing_target(source_anime_id, target_anime_id) ==
    LET dup == {z.id : z \in {y \in SourcesOfAnime(target_anime_id) :
                   SourceByNaturalKey(source_anime_id, y.provider_name, y.media_id) # {}}}
        gone == {e.id : e \in {y \in episode : y.source_id \in dup}}
    IN  [anime |-> {a \in anime : a.id # source_anime_id},
         anime_sources |-> {IF x.anime_id = source_anime_id
                            THEN [x EXCEPT !.anime_id = target_anime_id] ELSE x :
                            x \in {y \in anime_sources : y.id \notin dup}},
         episode |-> {e \in episode : e.source_id \notin dup},
         comment |-> {c \in comment : c.episode_id \notin gone}]

\* reassociate_anime_sources: the tables the committed transaction leaves
reassociate_anime_sources(source_anime_id, target_anime_id) ==
    LET dup == {x.id : x \in Duplicates(source_anime_id, target_anime_id)}
        gone == {e.id : e \in {y \in episode : y.source_id \in dup}}
    IN  [anime |-> {a \in anime : a.id # source_anime_id},
         anime_sources |-> {IF x.anime_id = source_anime_id
                            THEN [x EXCEPT !.anime_id = target_anime_id] ELSE x :
                            x \in {y \in anime_sources : y.id \notin dup}},
         episode |-> {e \in episode : e.source_id \notin dup},
         comment |-> {c \in comment : c.episode_id \notin gone}]

\* POST /library/anime/{source_anime_id}/reassociate
Reassociate(a, b) ==
    /\ phase = "up"
    /\ a # b
    /\ \E x \in anime : x.id = a
    /\ \E x \in anime : x.id = b
    /\ anime' = reassociate_anime_sources(a, b).anime
    /\ anime_sources' = reassociate_anime_sources(a, b).anime_sources
    /\ episode' = reassociate_anime_sources(a, b).episode
    /\ comment' = reassociate_anime_sources(a, b).comment
    /\ UNCHANGED auxvars
    /\ UNCHANGED <<next_anime_id, next_source_id, enginevars, run, wrote, assigned>>

\* --------------------------------------- task endpoints (src/src/api/ui.py)
\* TaskManager.pause_task: only the task the worker holds, while it is not paused
pause_task(t) ==
    /\ phase = "up"
    /\ current = t
    /\ pause_event
    /\ pause_event' = FALSE
    /\ task_history' = update_task_status(task_history, t, PAUSED)
    /\ UNCHANGED auxvars
    /\ UNCHANGED <<libvars, next_task, queue, current, abort_flag, phase, crashes, run,
                   abort_h, delete_h, outcome, wrote, interrupted, assigned>>

\* TaskManager.resume_task: only the task the worker holds, while it is paused
resume_task(t) ==
    /\ phase = "up"
    /\ current = t
    /\ ~pause_event
    /\ pause_event' = TRUE
    /\ task_history' = update_task_status(task_history, t, RUNNING)
    /\ UNCHANGED auxvars
    /\ UNCHANGED <<libvars, next_task, queue, current, abort_flag, phase, crashes, run,
                   abort_h, delete_h, outcome, wrote, interrupted, assigned>>

\* TaskManager.abort_current_task: TRUE when t is the task the worker holds;
\* the abort flag is raised and a paused task is released to see it
abort_current_task(t) == current = t

\* abort_running_task up to its first await: the row is read, and the handler
\* goes on only for a row that reads RUNNING (404 and 400 change nothing)
AbortRead(t) ==
    /\ phase = "up"
    /\ abort_h = NoTask
    /\ task_history[t].status = RUNNING
    /\ abort_h' = t
    /\ UNCHANGED auxvars
    /\ UNCHANGED <<libvars, task_history, next_task, queue, current, pause_event,
                   abort_flag, phase, crashes, run, delete_h, outcome, wrote,
                   interrupted, assigned>>

\* abort_running_task after the read: a graceful abort, or the row is
\* forced to FAILED without being read again
AbortCall ==
    /\ phase = "up"
    /\ abort_h # NoTask
    /\ abort_h' = NoTask
    /\ IF abort_current_task(abort_h)
       THEN /\ abort_flag' = TRUE
            /\ pause_event' = TRUE
            /\ UNCHANGED task_history
       ELSE /\ task_history' = finalize_task_in_history(task_history, abort_h,
                                                        FAILED, DescAborted)
            /\ UNCHANGED <<abort_flag, pause_event>>
    /\ UNCHANGED auxvars
    /\ UNCHANGED <<libvars, next_task, queue, current, phase, crashes, run, delete_h,
                   outcome, wrote, interrupted, assigned>>

\* TaskManager.cancel_pending_task: the task leaves the queue
cancel_pending_task(q, t) == SelectSeq(q, LAMBDA e : e.id # t)

\* delete_task_from_history_endpoint up to its first await: the row is read
DeleteRead(t) ==
    /\ phase = "up"
    /\ delete_h = NoDelete
    /\ task_history[t] # NoRow
    /\ delete_h' = [task |-> t, stage |-> "act", status |-> task_history[t].status]
    /\ UNCHANGED auxvars
    /\ UNCHANGED <<libvars, task_history, next_task, queue, current, pause_event,
                   abort_flag, phase, crashes, run, abort_h, outcome, wrote,
                   interrupted, assigned>>

\* the branch on the status that was read
DeleteAct ==
    /\ phase = "up"
    /\ delete_h # NoDelete
    /\ delete_h.stage = "act"
    /\ IF delete_h.status = PENDING
       THEN /\ queue' = cancel_pending_task(queue, delete_h.task)
            /\ delete_h' = [delete_h EXCEPT !.stage = "row"]
            /\ UNCHANGED <<abort_flag, pause_event>>
       ELSE IF delete_h.status \in {RUNNING, PAUSED}
       THEN IF abort_current_task(delete_h.task)
            THEN /\ abort_flag' = TRUE
                 /\ pause_event' = TRUE
                 /\ delete_h' = [delete_h EXCEPT !.stage = "row"]
                 /\ UNCHANGED queue
            ELSE /\ delete_h' = [delete_h EXCEPT !.stage = "recheck"]
                 /\ UNCHANGED <<queue, abort_flag, pause_event>>
       ELSE /\ delete_h' = [delete_h EXCEPT !.stage = "row"]
            /\ UNCHANGED <<queue, abort_flag, pause_event>>
    /\ UNCHANGED auxvars
    /\ UNCHANGED <<libvars, task_history, next_task, current, phase, crashes, run,
                   abort_h, outcome, wrote, interrupted, assigned>>

\* task_after_check: 409 when the row is still RUNNING or PAUSED
DeleteRecheck ==
    /\ phase = "up"
    /\ delete_h # NoDelete
    /\ delete_h.stage = "recheck"
    /\ delete_h' = IF task_history[delete_h.task].status \in {RUNNING, PAUSED}
                   THEN NoDelete ELSE [delete_h EXCEPT !.stage = "row"]
    /\ UNCHANGED auxvars
    /\ UNCHANGED <<libvars, task_history, next_task, queue, current, pause_event,
                   abort_flag, phase, crashes, run, abort_h, outcome, wrote,
                   interrupted, assigned>>

\* deleted = await crud.delete_task_from_history(pool, task_id)
DeleteRow ==
    /\ phase = "up"
    /\ delete_h # NoDelete
    /\ delete_h.stage = "row"
    /\ task_history' = delete_task_from_history(task_history, delete_h.task)
    /\ delete_h' = NoDelete
    /\ UNCHANGED auxvars
    /\ UNCHANGED <<libvars, next_task, queue, current, pause_event, abort_flag, phase,
                   crashes, run, abort_h, outcome, wrote, interrupted, assigned>>

\* ------------------------------------------------------- the specifications
\* a full import or an import of episode 1 of the one request
ImportEngineRequest ==
    /\ next_task < MaxTasks
    /\ \E tg \in {0, 1} : import_from_provider(EngineRequest, tg)

\* the task engine with one import request
Next ==
    \/ StartupReconcile
    \/ StartupEngine
    \/ Crash
    \/ ImportEngineRequest
    \/ WorkerPull
    \/ progress_callback
    \/ GetEpisodes
    \/ GetComments
    \/ W_Anime
    \/ W_Source
    \/ W_Episode
    \/ W_Comments
    \/ W_Count
    \/ WorkerFinalize
    \/ \E t \in TaskIds : pause_task(t)
    \/ \E t \in TaskIds : resume_task(t)
    \/ \E t \in TaskIds : AbortRead(t)
    \/ AbortCall
    \/ \E t \in TaskIds : DeleteRead(t)
    \/ DeleteAct
    \/ DeleteRecheck
    \/ DeleteRow

Spec == Init /\ [][Next]_vars

\* a full import or a single-episode import of one of the library requests
ImportLibRequest ==
    /\ next_task < MaxTasks
    /\ \E r \in LibRequests, tg \in {0} \cup EpisodeIndexes : import_from_provider(r, tg)

DeleteSource ==
    /\ next_task < MaxTasks
    /\ \E sid \in 1..MaxSources : delete_source_from_anime(sid)

\* the library: imports and source deletions through the engine, favorite
\* toggles and reassociations called directly
NextLib ==
    \/ StartupReconcile
    \/ StartupEngine
    \/ ImportLibRequest
    \/ DeleteSource
    \/ WorkerPull
    \/ progress_callback
    \/ GetEpisodes
    \/ GetComments
    \/ W_Anime
    \/ W_Source
    \/ W_Episode
    \/ W_Comments
    \/ W_Count
    \/ D_Delete
    \/ WorkerFinalize
    \/ \E sid \in 1..MaxSources : ToggleFavorite(sid)
    \/ \E a, b \in 1..MaxAnime : Reassociate(a, b)

SpecLib == Init /\ [][NextLib]_vars

\* ------------------------------------------------------------- properties
RunningRows == {t \in TaskIds : task_history[t].status = RUNNING}
Terminal(st) == st \in {COMPLETED, FAILED}

\* C1: in every reachable state at most one task_history row is RUNNING
C1_AtMostOneRunning == Cardinality(RunningRows) <= 1

\* after a restart the worker runs the second task, and the row of the
\* first one is no longer RUNNING
C1_Witness ==
    /\ current = 2
    /\ task_history[2].status = RUNNING
    /\ Terminal(task_history[1].status)
    /\ crashes = 1

\* a change of status from a to b that the state model allows
StatusStep(a, b) ==
    /\ ~Terminal(a)
    /\ b = RUNNING => a \in {PENDING, PAUSED}
    /\ b = PAUSED => a = RUNNING
    /\ b = PENDING => FALSE

\* C2: every change of a row's status is a step of the state model
\* PENDING -> RUNNING -> (PAUSED <-> RUNNING) -> COMPLETED | FAILED: RUNNING
\* only from PENDING or PAUSED, PAUSED only from RUNNING, and no change at
\* all once the row is COMPLETED or FAILED
C2_StateModel ==
    [][\A t \in TaskIds :
         (/\ task_history[t] # NoRow
          /\ task_history'[t] # NoRow
          /\ task_history'[t].status # task_history[t].status)
         => StatusStep(task_history[t].status, task_history'[t].status)]_vars

\* every GetEpisodes and GetComments call of the running import has returned
FetchDone(r) == Len(r.eps) > 0 /\ r.fetched = Len(r.eps)

\* C3: the running import has written nothing to the library tables unless
\* every GetEpisodes and GetComments call of it has returned; in particular
\* an import that ended inside the fetch phase has written nothing
C3_NoWriteBeforeFetched ==
    (run.kind = "import" /\ wrote) => FetchDone(run)

\* the import was aborted in GetComments of the second episode, after the
\* comments of the first one had arrived: nothing was written
C3_Witness ==
    /\ Ended(run)
    /\ run.exc = "cancelled"
    /\ run.at = "tick_comments"
    /\ run.fetched = 1
    /\ run.eps[1].comments # {}
    /\ ~wrote
    /\ comment = {} /\ episode = {} /\ anime = {}

C5_StartupReconciliation ==
    /\ phase # "up" => (current = NoTask /\ run = IdleRun)
    /\ phase = "reconciled" =>
          \A t \in TaskIds : task_history[t].status \notin {RUNNING, PAUSED}
    /\ phase # "boot" =>
          \A t \in interrupted :
              task_history[t] \in {NoRow, Row(FAILED, DescInterrupted, TRUE)}

\* after a restart the engine runs a task while the row of a task that was
\* RUNNING or PAUSED at the crash is FAILED, "interrupted by restart"
C5_Witness ==
    /\ phase = "up"
    /\ current # NoTask
    /\ \E t \in interrupted : /\ t # current
                              /\ task_history[t] = Row(FAILED, DescInterrupted, TRUE)

\* C6: a task whose coroutine raised TaskSuccess(message) has a COMPLETED row
\* with that message as description, and a task whose coroutine raised any
\* other exception has a FAILED row
C6_SentinelTranslation ==
    \A t \in TaskIds :
        task_history[t] # NoRow =>
            /\ outcome[t].exc = "success"
                 => task_history[t] = Row(COMPLETED, outcome[t].msg, TRUE)
            /\ outcome[t].exc \in {"error", "cancelled"}
                 => task_history[t].status = FAILED

Favorited(aid) == {x \in SourcesOfAnime(aid) : x.is_favorited}

\* C8: in every reachable state every Work has at most one Source with
\* is_favorited = true
C8_OneFavoritePerWork ==
    \A a \in anime : Cardinality(Favorited(a.id)) <= 1

CountsMatch ==
    \A e \in episode : e.comment_count = Cardinality(CommentsOfEpisode(e.id))

\* C9: after any completed transaction every Episode's comment_count is the
\* number of Comment rows of the Episode; read in the states in which no
\* bulk_insert_comments call stands between its INSERT and its UPDATE
C9_CommentCount == ~Running("w_count") => CountsMatch

ProbeAnimeIds == {1, 999999, 1000000}
ProbeSourceOrders == {1, 10, 99, 101}
ProbeEpisodeIndexes == {1, 9999, 10001}
ProbeTriples == ProbeAnimeIds \X ProbeSourceOrders \X ProbeEpisodeIndexes

\* the field n fits a slot of w digits: n < 10^w
FitsSlot(n, w) == Len(Digits(n)) <= w
FitsSlots(t) ==
    /\ FitsSlot(t[1], AnimeIdWidth)
    /\ FitsSlot(t[2], SourceOrderWidth)
    /\ FitsSlot(t[3], EpisodeIndexWidth)

\* the length of an id all of whose fields fit their slots
EpisodeIdLen == 2 + AnimeIdWidth + SourceOrderWidth + EpisodeIndexWidth

InitId ==
    /\ Constructed
    /\ now = 0
    /\ probe \in {[a |-> x, b |-> y, id_a |-> <<>>, id_b |-> <<>>] : x, y \in ProbeTriples}
    /\ EmptyCache
    /\ calls = <<>>
    /\ before = NoBefore
    /\ InitExt

\* new_episode_id is computed for both triples
ApplyNewEpisodeId ==
    /\ probe.id_a = <<>>
    /\ probe' = [probe EXCEPT !.id_a = NewEpisodeId(probe.a[1], probe.a[2], probe.a[3]),
                              !.id_b = NewEpisodeId(probe.b[1], probe.b[2], probe.b[3])]
    /\ UNCHANGED <<progvars, now, cachevars, calls, before, extvars>>

NextId == ApplyNewEpisodeId
SpecId == InitId /\ [][NextId]_vars

Computed == probe.id_a # <<>>

\* C11: the episode id is injective: two triples (anime_id, source_order,
\* episode_index) that get the same id are the same triple
C11_IdInjective == (Computed /\ probe.id_a = probe.id_b) => probe.a = probe.b

\* the same for triples all of whose fields fit their slots
IdInjectiveInSlots ==
    (Computed /\ FitsSlots(probe.a) /\ FitsSlots(probe.b) /\ probe.id_a = probe.id_b)
        => probe.a = probe.b
IdInSlotsDistinctReached ==
    Computed /\ FitsSlots(probe.a) /\ FitsSlots(probe.b) /\ probe.a # probe.b

\* ------------------------------------- imports of an out-of-slot episode
\* current_episode_index of a single-episode import: in and beyond the slot
SlotTargets == {1, 10001}

ImportSlotRequest ==
    /\ next_task < MaxTasks
    /\ \E tg \in SlotTargets : import_from_provider(EngineRequest, tg)

NextSlot ==
    \/ StartupReconcile
    \/ StartupEngine
    \/ ImportSlotRequest
    \/ WorkerPull
    \/ progress_callback
    \/ GetEpisodes
    \/ GetComments
    \/ W_Anime
    \/ W_Source
    \/ W_Episode
    \/ W_Comments
    \/ W_Count
    \/ WorkerFinalize
SpecSlot == Init /\ [][NextSlot]_vars

\* C12: an import whose episode_index does not fit its slot is aborted with
\* an error when the id is generated, and no episode row carries an id
\* longer than the slots allow
C12_SlotOverflowAborts ==
    /\ \A e \in episode : Len(e.id) = EpisodeIdLen
    /\ (Ended(run) /\ run.kind = "import" /\ ~FitsSlot(run.target, EpisodeIndexWidth)
          /\ run.at \in {"w_episode", "w_comments", "w_count"}) => run.exc = "error"

\* ------------------------------------------------- importing a second time
ImportAgainRequest ==
    /\ next_task < MaxTasks
    /\ \E tg \in {0} \cup EpisodeIndexes : import_from_provider(EngineRequest, tg)

NextAgain ==
    \/ StartupReconcile
    \/ StartupEngine
    \/ ImportAgainRequest
    \/ WorkerPull
    \/ progress_callback
    \/ GetEpisodes
    \/ GetComments
    \/ W_Anime
    \/ W_Source
    \/ W_Episode
    \/ W_Comments
    \/ W_Count
    \/ WorkerFinalizeKept
SpecAgain == Init /\ [][NextAgain]_vars

\* r is a completed import of the same request that found the same upstream
\* episodes and comments as the import that ended before it
SameImport(r) ==
    /\ Ended(r) /\ r.kind = "import" /\ r.exc = "success"
    /\ before.run.kind = "import" /\ before.run.exc = "success"
    /\ before.run.req = r.req /\ before.run.target = r.target /\ before.run.eps = r.eps

\* C13: when an import of a (provider, media_id) ends after an import of the
\* same one that found the same upstream, the tables are as the first left them
C13_ReimportIdentical == SameImport(run) => Lib = before.lib

C13_Witness ==
    /\ SameImport(run)
    /\ \E j \in 1..Len(run.eps) : run.eps[j].comments # {}
    /\ Lib = before.lib

\* ------------------------------------------------------------- the cache
\* json.dumps(value, ensure_ascii=False) as the sequence of JSON tokens
RECURSIVE DumpItems(_)
DumpItems(xs) ==
    IF xs = <<>> THEN <<>>
    ELSE IF Len(xs) = 1 THEN <<"str", xs[1]>>
    ELSE <<"str", xs[1], ",">> \o DumpItems(Tail(xs))
json_dumps(value) ==
    CASE value.t = "None" -> <<"null">>
      [] value.t = "str" -> <<"str", value.v[1]>>
      [] value.t = "list" -> <<"[">> \o DumpItems(value.v) \o <<"]">>

\* json.loads(text): the value, or PyNone for a JSONDecodeError
RECURSIVE LoadItems(_)
LoadItems(toks) ==
    IF toks = <<>> THEN <<>>
    ELSE IF Len(toks) = 2 THEN <<toks[2]>>
    ELSE <<toks[2]>> \o LoadItems(SubSeq(toks, 4, Len(toks)))
WellFormedItems(toks) ==
    \/ toks = <<>>
    \/ /\ Len(toks) % 3 = 2
       /\ \A i \in 1..Len(toks) : (i % 3 = 1 => toks[i] = "str") /\ (i % 3 = 0 => toks[i] = ",")
json_loads(toks) ==
    IF toks = <<"null">> THEN PyNone
    ELSE IF Len(toks) = 2 /\ toks[1] = "str" THEN PyStr(toks[2])
    ELSE IF Len(toks) >= 2 /\ toks[1] = "[" /\ toks[Len(toks)] = "]"
            /\ WellFormedItems(SubSeq(toks, 2, Len(toks) - 1))
    THEN PyList(LoadItems(SubSeq(toks, 2, Len(toks) - 1)))
    ELSE PyNone

\* a read that returns the stored value whatever its expires_at
get_cache_unexpiring(key) ==
    IF cache_data[key] # NoEntry THEN json_loads(cache_data[key].cache_value) ELSE PyNone

\* SELECT cache_value FROM cache_data WHERE cache_key = %s AND expires_at > NOW()
get_cache(key) ==
    IF cache_data[key] # NoEntry /\ cache_data[key].expires_at > now
    THEN json_loads(cache_data[key].cache_value)
    ELSE PyNone

\* INSERT INTO cache_data ... VALUES (..., NOW() + INTERVAL %s SECOND)
\* ON DUPLICATE KEY UPDATE ...
set_cache(key, value, ttl_seconds) ==
    [cache_data EXCEPT ![key] = [cache_value |-> json_dumps(value),
                                 expires_at |-> now + ttl_seconds]]

\* DELETE FROM cache_data WHERE expires_at <= NOW()
clear_expired_cache ==
    [k \in CacheKeys |-> IF cache_data[k] # NoEntry /\ cache_data[k].expires_at <= now
                         THEN NoEntry ELSE cache_data[k]]
cachefixed == <<progvars, probe, calls, before, extvars>>

\* a second passes
Tick ==
    /\ now < MaxNow
    /\ now' = now + 1
    /\ UNCHANGED <<progvars, probe, cachevars, calls, before, extvars>>

\* PUT /config/{config_key}
update_config_item(config_key, ttl) ==
    /\ config' = [config EXCEPT ![config_key] = ttl]
    /\ UNCHANGED <<cache_data, ttl_config, last_set, got, now, cachefixed>>
UpdateConfig == \E ck \in ConfigKeys, ttl \in Ttls : update_config_item(ck, ttl)

\* a handler reads the cache: self._get_from_cache(key) / crud.get_cache(pool, key)
GetCache ==
    /\ \E key \in CacheKeys :
         got' = [key |-> key, value |-> get_cache(key), at |-> now,
                 ttl |-> config[TtlKeyOf(key)]]
    /\ UNCHANGED <<cache_data, config, ttl_config, last_set, now, cachefixed>>

\* BaseScraper._get_ttl: the setting is read once per scraper instance
get_ttl == IF ttl_config = NoTtl THEN config["search_ttl_seconds"] ELSE ttl_config

\* BaseScraper._set_to_cache(key, value, 'search_ttl_seconds', 300)
SetToCache ==
    /\ \E value \in CacheValues :
         /\ cache_data' = IF get_ttl > 0 THEN set_cache(ScraperKey, value, get_ttl)
                          ELSE cache_data
         /\ last_set' = [last_set EXCEPT ![ScraperKey] =
                            [value |-> value, at |-> now, ttl |-> get_ttl]]
    /\ ttl_config' = get_ttl
    /\ got' = NoGot
    /\ UNCHANGED <<config, now, cachefixed>>

\* search_tmdb_tv after a miss: ttl_seconds_str = get_config_value(...);
\* crud.set_cache(pool, cache_key, final_results, int(ttl_seconds_str), ...)
MetadataSetCache ==
    /\ \E value \in CacheValues :
         /\ cache_data' = set_cache(MetadataKey, value, config["metadata_search_ttl_seconds"])
         /\ last_set' = [last_set EXCEPT ![MetadataKey] =
                            [value |-> value, at |-> now,
                             ttl |-> config["metadata_search_ttl_seconds"]]]
    /\ got' = NoGot
    /\ UNCHANGED <<config, ttl_config, now, cachefixed>>

\* cleanup_task: crud.clear_expired_cache(pool)
ClearExpired ==
    /\ cache_data' = clear_expired_cache
    /\ UNCHANGED <<config, ttl_config, last_set, got, now, cachefixed>>

\* POST /cache/clear: DELETE FROM cache_data
clear_all_caches ==
    /\ cache_data' = [k \in CacheKeys |-> NoEntry]
    /\ last_set' = [k \in CacheKeys |-> NoSet]
    /\ got' = NoGot
    /\ UNCHANGED <<config, ttl_config, now, cachefixed>>

NextCache ==
    \/ Tick
    \/ UpdateConfig
    \/ GetCache
    \/ SetToCache
    \/ MetadataSetCache
    \/ ClearExpired
    \/ clear_all_caches
SpecCache == Init /\ [][NextCache]_vars

\* the last read was of key k and came after the last write of k, a write
\* with a positive TTL, with no clear of the table in between
ReadAfterSet(k) == got.key = k /\ last_set[k] # NoSet /\ last_set[k].ttl > 0

\* C14: a read of a key after set(key, v, ttl > 0) at time t returns v when
\* it happens before t + ttl and a miss when it happens after t + ttl
C14_CacheRead ==
    \A k \in CacheKeys :
        ReadAfterSet(k) =>
            /\ got.at < last_set[k].at + last_set[k].ttl => got.value = last_set[k].value
            /\ got.at > last_set[k].at + last_set[k].ttl => got.value = PyNone

C14_Witness ==
    \E k \in CacheKeys :
        /\ ReadAfterSet(k)
        /\ got.at > last_set[k].at
        /\ got.at < last_set[k].at + last_set[k].ttl
        /\ got.value = last_set[k].value

\* a read after the entry expired, while its row is still in the table
ExpiredRowRead ==
    \E k \in CacheKeys :
        /\ ReadAfterSet(k)
        /\ got.at > last_set[k].at + last_set[k].ttl
        /\ cache_data[k] # NoEntry
        /\ got.value = PyNone

\* a cache write called with ttl <= 0 for key k
NonPositiveWrite(k) == last_set'[k] # last_set[k] /\ last_set'[k] # NoSet /\ last_set'[k].ttl <= 0

\* a cache write with ttl <= 0 leaves the cache table as it was
WriteIsNoOp == [][\A k \in CacheKeys : NonPositiveWrite(k) => cache_data' = cache_data]_vars

\* a read made while the TTL setting of its key is 0 misses
ReadMissesWhenDisabled == (got # NoGot /\ got.ttl = 0) => got.value = PyNone

\* C15: a cache write with ttl <= 0 creates no entry and changes no entry,
\* and while the TTL setting is 0 every read misses
C15_TtlZeroDisables == WriteIsNoOp /\ []ReadMissesWhenDisabled

\* ------------------------------------------------ merging two Works
\* single-episode imports that can put the same (provider, media_id) under
\* two Works
MergeRequests == {Req("tencent", "a", "A"), Req("iqiyi", "b", "A"), Req("tencent", "a", "B")}

ImportMergeRequest ==
    /\ next_task < MaxChain
    /\ \E r \in MergeRequests : import_from_provider(r, 1)

\* POST /library/anime/{source_anime_id}/reassociate with two different ids,
\* made while no task is running: 404 when crud.reassociate_anime_sources returns False, else the merge
ReassociateCall(a, b) ==
    LET found == (\E x \in anime : x.id = a) /\ (\E x \in anime : x.id = b)
        res == IF found THEN reassociate_anime_sources(a, b)
               ELSE [anime |-> anime, anime_sources |-> anime_sources,
                     episode |-> episode, comment |-> comment]
    IN  /\ phase = "up"
        /\ current = NoTask
        /\ a # b
        /\ Len(calls) < MaxCalls
        /\ anime' = res.anime
        /\ anime_sources' = res.anime_sources
        /\ episode' = res.episode
        /\ comment' = res.comment
        /\ calls' = Append(calls,
                       [a |-> a, b |-> b, ok |-> found, pre |-> Lib,
                        post |-> <<res.anime, res.anime_sources, res.episode, res.comment>>])
        /\ UNCHANGED <<next_anime_id, next_source_id, enginevars, run, wrote, assigned,
                       now, probe, cachevars, before, extvars>>
ReassociateCalls == \E a, b \in 1..MaxAnime : ReassociateCall(a, b)

NextMerge ==
    \/ StartupReconcile
    \/ StartupEngine
    \/ ImportMergeRequest
    \/ WorkerPull
    \/ progress_callback
    \/ GetEpisodes
    \/ GetComments
    \/ W_Anime
    \/ W_Source
    \/ W_Episode
    \/ W_Comments
    \/ W_Count
    \/ WorkerFinalize
    \/ ReassociateCalls
SpecMerge == Init /\ [][NextMerge]_vars

\* the sources of Work w in a recorded library, and those of call c's Work a
\* whose (provider, media_id) its Work b already has
SourcesIn(lib, w) == {x \in lib[2] : x.anime_id = w}
Colliding(c) ==
    {x \in SourcesIn(c.pre, c.a) :
        \E z \in SourcesIn(c.pre, c.b) :
            z.provider_name = x.provider_name /\ z.media_id = x.media_id}
EpisodeIdsOf(lib, srcs) == {e.id : e \in {y \in lib[3] : y.source_id \in {x.id : x \in srcs}}}

\* call c moved the sources of a to b, deleted the colliding ones with their
\* episodes and comments, kept everything of b and deleted Work a
Merged(c) ==
    /\ c.post[1] = {w \in c.pre[1] : w.id # c.a}
    /\ c.post[2] = {x \in c.pre[2] : x.anime_id # c.a}
                     \cup {[x EXCEPT !.anime_id = c.b] : x \in SourcesIn(c.pre, c.a) \ Colliding(c)}
    /\ c.post[3] = {e \in c.pre[3] : e.id \notin EpisodeIdsOf(c.pre, Colliding(c))}
    /\ c.post[4] = {m \in c.pre[4] : m.episode_id \notin EpisodeIdsOf(c.pre, Colliding(c))}

EpisodeShape(lib, sid) ==
    {[episode_index |-> e.episode_index,
      cids |-> {m.cid : m \in {y \in lib[4] : y.episode_id = e.id}}] :
        e \in {y \in lib[3] : y.source_id = sid}}
Shape(lib) ==
    {[key |-> w.key,
      sources |-> {[provider_name |-> x.provider_name, media_id |-> x.media_id,
                    episodes |-> EpisodeShape(lib, x.id)] : x \in SourcesIn(lib, w.id)}] :
        w \in lib[1]}

\* a successful Reassociate(A -> B) directly followed by a Reassociate(B -> A)
RoundTrip ==
    /\ Len(calls) = 2
    /\ calls[1].ok
    /\ calls[2].a = calls[1].b /\ calls[2].b = calls[1].a
    /\ calls[2].pre = calls[1].post

refresh_anime(sid) ==
    /\ \E x \in anime_sources : x.id = sid /\ \E w \in anime : w.id = x.anime_id
    /\ submit_task("refresh", NoReq, sid)

\* get_anime_source_info: the source row joined with its Work
SourceInfo(sid) ==
    {Req(p[1].provider_name, p[1].media_id, p[2].key) :
        p \in {q \in anime_sources \X anime : q[1].id = sid /\ q[2].id = q[1].anime_id}}

\* source_info = await crud.get_anime_source_info(pool, source_id); without
\* it the task returns (its progress_callback(100, ...) is never awaited)
R_Info ==
    /\ Running("r_info")
    /\ run' = IF SourceInfo(run.target) = {} THEN [run EXCEPT !.pc = "ended", !.at = "r_info"]
              ELSE [run EXCEPT !.req = CHOOSE r \in SourceInfo(run.target) : TRUE,
                               !.source_id = run.target, !.pc = "tick_clear"]
    /\ UNCHANGED <<libvars, enginevars, wrote, assigned, auxvars>>

\* a clear that deletes the comments and leaves the episode rows
clear_source_comments(sid) ==
    [episode |-> episode,
     comment |-> {c \in comment : c.episode_id \notin {e.id : e \in EpisodesOfSource(sid)}}]

\* clear_source_data: the tables after its two DELETE statements
clear_source_data(sid) ==
    [episode |-> {e \in episode : e.source_id # sid},
     comment |-> {c \in comment : c.episode_id \notin {e.id : e \in EpisodesOfSource(sid)}}]

\* SELECT id FROM episode WHERE source_id = %s; DELETE FROM comment WHERE
\* episode_id IN (...): autocommit, so committed before the next statement
R_ClearComments ==
    /\ Running("r_clear_comments")
    /\ comment' = clear_source_data(run.source_id).comment
    /\ wrote' = (wrote \/ comment' # comment)
    /\ run' = [run EXCEPT !.pc = "r_clear_episodes"]
    /\ UNCHANGED <<anime, anime_sources, episode, next_anime_id, next_source_id,
                   enginevars, assigned, auxvars>>

\* DELETE FROM episode WHERE id IN (...); then generic_import_task(...,
\* current_episode_index=None, ...) starts with its first tick
R_ClearEpisodes ==
    /\ Running("r_clear_episodes")
    /\ episode' = clear_source_data(run.source_id).episode
    /\ wrote' = (wrote \/ episode' # episode)
    /\ run' = [run EXCEPT !.target = 0, !.pc = "tick_list"]
    /\ UNCHANGED <<anime, anime_sources, comment, next_anime_id, next_source_id,
                   enginevars, assigned, auxvars>>

ImportRefreshRequest ==
    /\ next_task < MaxTasks
    /\ import_from_provider(EngineRequest, 0)
RefreshRequest ==
    /\ next_task < MaxTasks
    /\ \E sid \in 1..MaxSources : refresh_anime(sid)
AbortRequest == \E t \in TaskIds : AbortRead(t)

NextRefresh ==
    \/ StartupReconcile
    \/ StartupEngine
    \/ ImportRefreshRequest
    \/ RefreshRequest
    \/ WorkerPull
    \/ progress_callback
    \/ R_Info
    \/ R_ClearComments
    \/ R_ClearEpisodes
    \/ GetEpisodes
    \/ GetComments
    \/ W_Anime
    \/ W_Source
    \/ W_Episode
    \/ W_Comments
    \/ W_Count
    \/ WorkerFinalizeKept
    \/ AbortRequest
    \/ AbortCall
SpecRefresh == Init /\ [][NextRefresh]_vars

\* r is a full refresh that was cancelled at its third progress tick: the
\* abort came after the ticks of the clearing and of the episode list
AbortedAfterTwoTicks(r) ==
    /\ Ended(r) /\ r.kind = "refresh" /\ r.exc = "cancelled"
    /\ r.at = "tick_episode" /\ r.i = 1 /\ r.fetched = 0

\* C18: when a full refresh aborted after two progress ticks is finalized,
\* its row becomes FAILED with the description "aborted by user" and the
\* Source has no Episodes
C18_AbortedRefreshLeavesEmpty ==
    [][(AbortedAfterTwoTicks(run) /\ current' # current /\ phase' = "up")
          => /\ task_history'[current] = Row(FAILED, DescAborted, TRUE)
             /\ {e \in episode' : e.source_id = run.source_id} = {}]_vars

\* such a refresh of a Source that had been imported with episodes
C18_Witness ==
    /\ AbortedAfterTwoTicks(before.run)
    /\ \E a \in assigned : a.req = before.run.req
    /\ \E x \in anime_sources : x.id = before.run.source_id
    /\ EpisodesOfSource(before.run.source_id) = {}
    /\ \E t \in TaskIds : task_history[t] = Row(FAILED, DescAborted, TRUE)

\* -------------------------------------- refresh_episode_task (src/src/api/ui.py)
\* the cids the provider may return for an episode when it is refreshed
RefreshCids == {"c1", "c2"}
MsgRefreshed == "refresh finished"

\* submit_task for a coroutine that closes over an episode id
submit_episode_task(k, eid) ==
    /\ phase = "up"
    /\ Len(queue) < MaxQueue
    /\ next_task' = next_task + 1
    /\ task_history' = create_task_in_history(task_history, next_task + 1, PENDING, DescPending)
    /\ queue' = Append(queue, [Task(next_task + 1, k, NoReq, 0) EXCEPT !.episode_id = eid])
    /\ UNCHANGED auxvars
    /\ UNCHANGED <<libvars, current, pause_event, abort_flag, phase, crashes, run,
                   abort_h, delete_h, outcome, wrote, interrupted, assigned>>

\* SELECT id, title FROM episode WHERE id = %s
get_episode_for_refresh(eid) == {e \in episode : e.id = eid}

\* POST /library/episode/{episode_id}/refresh: 404 without the episode row
refresh_single_episode(eid) ==
    /\ get_episode_for_refresh(eid) # {}
    /\ submit_episode_task("refresh_episode", eid)

\* SELECT s.provider_name, e.provider_episode_id FROM episode e JOIN
\* anime_sources s ON e.source_id = s.id WHERE e.id = %s
get_episode_provider_info(eid) ==
    {p[1] : p \in {q \in episode \X anime_sources : q[1].id = eid /\ q[2].id = q[1].source_id}}

\* SELECT cid FROM comment WHERE episode_id = %s
get_existing_comment_cids(eid) == {c.cid : c \in CommentsOfEpisode(eid)}

\* a comparison that keeps every comment the provider returned
new_comments_unfiltered(all_comments_from_source, existing_cids) == all_comments_from_source

\* [c for c in all_comments_from_source if str(c.get('cid')) not in existing_cids]
new_comments(all_comments_from_source, existing_cids) ==
    {c \in all_comments_from_source : c \notin existing_cids}

\* UPDATE episode SET fetched_at = %s WHERE id = %s, with datetime.now()
update_episode_fetch_time(eid) ==
    {IF e.id = eid THEN [e EXCEPT !.fetched_at = now] ELSE e : e \in episode}

\* info = await crud.get_episode_provider_info(pool, episode_id); without it
\* the task returns (its progress_callback(100, ...) is never awaited)
E_Info ==
    /\ Running("e_info")
    /\ run' = IF get_episode_provider_info(run.episode_db_id) = {}
              THEN [run EXCEPT !.pc = "ended", !.at = "e_info"]
              ELSE [run EXCEPT !.source_id =
                                  (CHOOSE e \in get_episode_provider_info(run.episode_db_id) :
                                      TRUE).source_id,
                               !.pc = "tick_e_fetch"]
    /\ UNCHANGED <<libvars, enginevars, wrote, assigned, auxvars>>

\* all_comments_from_source = await scraper.get_comments(...); an empty
\* answer goes straight to update_episode_fetch_time
E_GetComments ==
    /\ Running("e_get_comments")
    /\ \/ \E cs \in SUBSET RefreshCids :
            run' = [run EXCEPT !.eps = <<[index |-> 0, comments |-> cs]>>, !.fetched = 1,
                               !.pc = IF cs = {} THEN "e_fetch_time" ELSE "tick_e_compare"]
       \/ run' = Raise(run, "error", DescFailed)
    /\ UNCHANGED <<libvars, enginevars, wrote, assigned, auxvars>>

\* existing_cids = await crud.get_existing_comment_cids(pool, episode_id);
\* new_comments = [...]; without new comments the write is skipped
E_Existing ==
    /\ Running("e_existing")
    /\ LET news == new_comments(run.eps[1].comments,
                                get_existing_comment_cids(run.episode_db_id))
       IN  run' = [run EXCEPT !.new_comments = news,
                              !.pc = IF news = {} THEN "e_fetch_time" ELSE "tick_e_write"]
    /\ UNCHANGED <<libvars, enginevars, wrote, assigned, auxvars>>

\* added_count = await crud.bulk_insert_comments(pool, episode_id, new_comments):
\* the executemany of the INSERT IGNORE
RefreshInsert == bulk_insert_comments(run.episode_db_id, run.new_comments)
E_Insert ==
    /\ Running("e_insert")
    /\ comment' = RefreshInsert.comment
    /\ run' = [run EXCEPT !.affected_rows = RefreshInsert.affected_rows,
                          !.pc = IF RefreshInsert.affected_rows > 0 THEN "e_count"
                                 ELSE "e_fetch_time"]
    /\ wrote' = (wrote \/ comment' # comment)
    /\ UNCHANGED <<anime, anime_sources, episode, next_anime_id, next_source_id,
                   enginevars, assigned, auxvars>>

\* if affected_rows > 0: UPDATE episode SET comment_count = comment_count + %s
E_Count ==
    /\ Running("e_count")
    /\ episode' = AddCommentCount(episode, run.episode_db_id, run.affected_rows)
    /\ run' = [run EXCEPT !.pc = "e_fetch_time"]
    /\ wrote' = TRUE
    /\ UNCHANGED <<anime, anime_sources, comment, next_anime_id, next_source_id,
                   enginevars, assigned, auxvars>>

\* await crud.update_episode_fetch_time(pool, episode_id); raise TaskSuccess(...)
E_FetchTime ==
    /\ Running("e_fetch_time")
    /\ episode' = update_episode_fetch_time(run.episode_db_id)
    /\ run' = Raise(run, "success", MsgRefreshed)
    /\ wrote' = (wrote \/ episode' # episode)
    /\ UNCHANGED <<anime, anime_sources, comment, next_anime_id, next_source_id,
                   enginevars, assigned, auxvars>>

\* one import of one episode, then refreshes of the episodes in the library
ImportEpisodeRequest ==
    /\ next_task < 1
    /\ import_from_provider(EngineRequest, 1)
RefreshEpisodeRequest ==
    /\ next_task < MaxChain
    /\ \E e \in episode : refresh_single_episode(e.id)

NextEpisode ==
    \/ StartupReconcile
    \/ StartupEngine
    \/ Tick
    \/ ImportEpisodeRequest
    \/ RefreshEpisodeRequest
    \/ WorkerPull
    \/ progress_callback
    \/ GetEpisodes
    \/ GetComments
    \/ W_Anime
    \/ W_Source
    \/ W_Episode
    \/ W_Comments
    \/ W_Count
    \/ E_Info
    \/ E_GetComments
    \/ E_Existing
    \/ E_Insert
    \/ E_Count
    \/ E_FetchTime
    \/ WorkerFinalizeKept
SpecEpisode == Init /\ [][NextEpisode]_vars

\* r is a single-episode refresh that ended with TaskSuccess
Refreshed(r) == Ended(r) /\ r.kind = "refresh_episode" /\ r.exc = "success"
\* the episode row with this id in an episode table
EpisodeRow(table, eid) == CHOOSE e \in table : e.id = eid
\* the cids stored for the episode in a comment table
StoredCids(table, eid) == {c.cid : c \in {x \in table : x.episode_id = eid}}

\* C19: a single-episode refresh that ended with success has inserted exactly
\* the upstream comments whose cid was not stored for the episode, raised
\* comment_count by their number and set fetched_at to a time not before the
\* refresh began; a refresh with the same upstream as the refresh before it
\* inserts nothing and leaves the comment rows and comment_count as they were
RefreshInsertsNew ==
    Refreshed(run) =>
        LET eid == run.episode_db_id
            old == StoredCids(before.lib[4], eid)
            added == run.eps[1].comments \ old
        IN  /\ comment = before.lib[4] \cup {[episode_id |-> eid, cid |-> c] : c \in added}
            /\ run.new_comments = added
            /\ run.affected_rows = Cardinality(added)
            /\ EpisodeRow(episode, eid).comment_count
                   = EpisodeRow(before.lib[3], eid).comment_count + Cardinality(added)
            /\ EpisodeRow(episode, eid).fetched_at >= before.now
            /\ EpisodeRow(episode, eid).fetched_at >= EpisodeRow(before.lib[3], eid).fetched_at
SameRefresh(r) ==
    /\ Refreshed(r) /\ Refreshed(before.run)
    /\ r.episode_db_id = before.run.episode_db_id
    /\ r.eps = before.run.eps
RefreshIdempotent ==
    SameRefresh(run) =>
        /\ run.affected_rows = 0 /\ run.new_comments = {}
        /\ comment = before.lib[4]
        /\ EpisodeRow(episode, run.episode_db_id).comment_count
               = EpisodeRow(before.lib[3], run.episode_db_id).comment_count
C19_RefreshInsertsNew == RefreshInsertsNew /\ RefreshIdempotent

\* a second refresh with the same upstream as the first, which had added a
\* comment to the imported ones, ended later than the first
C19_Witness ==
    /\ SameRefresh(run)
    /\ before.run.affected_rows = 1
    /\ run.eps[1].comments = RefreshCids
    /\ StoredCids(comment, run.episode_db_id) = RefreshCids
    /\ EpisodeRow(episode, run.episode_db_id).fetched_at
           > EpisodeRow(before.lib[3], run.episode_db_id).fetched_at

\* ------------------------------------- reorder_episodes_task (src/src/api/ui.py)
MsgReordered == "reorder finished"
MsgNoReorder == "no episodes to reorder"

\* the episode of a Source at an index: (source_id, episode_index) is UNIQUE
EpisodeAt(sid, idx) == CHOOSE e \in EpisodesOfSource(sid) : e.episode_index = idx

\* the episodes of a Source by falling episode_index
RECURSIVE SortedDesc(_)
SortedDesc(S) ==
    IF S = {} THEN <<>>
    ELSE LET m == CHOOSE x \in S : \A y \in S : y <= x IN <<m>> \o SortedDesc(S \ {m})
get_episodes_for_source_desc(sid) ==
    LET idxs == SortedDesc({e.episode_index : e \in EpisodesOfSource(sid)})
    IN  [j \in 1..Len(idxs) |-> EpisodeAt(sid, idxs[j])]

\* SELECT ... FROM episode WHERE source_id = %s ORDER BY episode_index ASC
get_episodes_for_source(sid) ==
    LET idxs == SortedSeq({e.episode_index : e \in EpisodesOfSource(sid)})
    IN  [j \in 1..Len(idxs) |-> EpisodeAt(sid, idxs[j])]

\* POST /library/source/{source_id}/reorder-episodes: 404 without the source
reorder_source_episodes(sid) ==
    /\ SourceInfo(sid) # {}
    /\ submit_task("reorder", NoReq, sid)

\* episodes = await crud.get_episodes_for_source(pool, source_id); without
\* episodes the task ends with TaskSuccess; else conn.begin()
O_List ==
    /\ Running("o_list")
    /\ run' = IF get_episodes_for_source(run.target) = <<>>
              THEN Raise(run, "success", MsgNoReorder)
              ELSE [run EXCEPT !.eps = get_episodes_for_source(run.target),
                               !.source_id = run.target, !.i = 1, !.pc = "o_update"]
    /\ UNCHANGED <<libvars, enginevars, wrote, assigned, auxvars>>

\* a numbering that starts at 2
new_index_from_two(j) == j + 1
\* new_index = i + 1 for the 0-based i of enumerate: the position in the list
new_index(j) == j

\* the episode_index the transaction sees for the j-th listed episode before
\* the UPDATE of the r.i-th
ViewIndex(r, j) == IF j < r.i THEN new_index(j) ELSE r.eps[j].episode_index
\* the UPDATE of the r.i-th listed episode violates UNIQUE (source_id, episode_index)
DuplicateKey(r) ==
    /\ r.eps[r.i].episode_index # new_index(r.i)
    /\ \E j \in 1..Len(r.eps) : j # r.i /\ ViewIndex(r, j) = new_index(r.i)

\* for i, episode in enumerate(episodes): new_index = i + 1; the UPDATE of a
\* row whose episode_index differs is sent inside the transaction and counted;
\* an UPDATE that raises ends the task after the rollback
O_Update ==
    /\ Running("o_update")
    /\ run.i <= Len(run.eps)
    /\ run' = IF DuplicateKey(run) THEN Raise(run, "error", DescFailed)
              ELSE [run EXCEPT !.affected_rows =
                                   IF run.eps[run.i].episode_index # new_index(run.i)
                                   THEN @ + 1 ELSE @,
                               !.i = run.i + 1, !.pc = "tick_o_episode"]
    /\ UNCHANGED <<libvars, enginevars, wrote, assigned, auxvars>>

\* the episode table after the UPDATEs of the transaction
Reindexed(eps) ==
    {IF \E j \in 1..Len(eps) : eps[j].id = e.id
     THEN [e EXCEPT !.episode_index = new_index(CHOOSE j \in 1..Len(eps) : eps[j].id = e.id)]
     ELSE e : e \in episode}

\* await conn.commit(); raise TaskSuccess(...): the UPDATEs become visible
\* together; an exception before it rolls them back
O_Commit ==
    /\ Running("o_update")
    /\ run.i > Len(run.eps)
    /\ episode' = Reindexed(run.eps)
    /\ run' = Raise(run, "success", MsgReordered)
    /\ wrote' = (wrote \/ episode' # episode)
    /\ UNCHANGED <<anime, anime_sources, comment, next_anime_id, next_source_id,
                   enginevars, assigned, auxvars>>

\* single-episode imports that leave gaps in the indices of a Source, then
\* reorders of the Sources in the library
GapTargets == {2, 3}
ImportGapRequest ==
    /\ next_task < MaxTasks
    /\ \E tg \in GapTargets : import_from_provider(EngineRequest, tg)
ReorderRequest ==
    /\ next_task < MaxRows
    /\ \E sid \in 1..MaxSources : reorder_source_episodes(sid)

NextReorder ==
    \/ StartupReconcile
    \/ StartupEngine
    \/ ImportGapRequest
    \/ ReorderRequest
    \/ WorkerPull
    \/ progress_callback
    \/ GetEpisodes
    \/ GetComments
    \/ W_Anime
    \/ W_Source
    \/ W_Episode
    \/ W_Comments
    \/ W_Count
    \/ O_List
    \/ O_Update
    \/ O_Commit
    \/ WorkerFinalizeKept
SpecReorder == Init /\ [][NextReorder]_vars

\* r is a reorder that committed
Reordered(r) == Ended(r) /\ r.kind = "reorder" /\ r.exc = "success" /\ r.msg = MsgReordered
\* the episodes of a Source in an episode table
EpisodesIn(table, sid) == {e \in table : e.source_id = sid}
\* the two tables hold the same episodes of the Source in the same index order
SameOrder(t1, t2, sid) ==
    /\ {e.id : e \in EpisodesIn(t1, sid)} = {e.id : e \in EpisodesIn(t2, sid)}
    /\ \A a, b \in EpisodesIn(t1, sid) : \A c, d \in EpisodesIn(t2, sid) :
          (a.id = c.id /\ b.id = d.id) =>
              (a.episode_index < b.episode_index <=> c.episode_index < d.episode_index)

\* C20: a reorder that committed leaves the episodes of its Source at the
\* indices 1..n in the order they had, and a reorder that ran directly after
\* a reorder of the same Source updated no row and changed no episode
ReorderCompacts ==
    Reordered(run) =>
        /\ {e.episode_index : e \in EpisodesOfSource(run.source_id)}
               = 1..Cardinality(EpisodesOfSource(run.source_id))
        /\ SameOrder(before.lib[3], episode, run.source_id)
        /\ run.affected_rows = Cardinality({j \in 1..Len(run.eps) :
                                               run.eps[j].episode_index # j})
SecondReorder(r) ==
    /\ Reordered(r) /\ Reordered(before.run)
    /\ r.source_id = before.run.source_id
ReorderIdempotent ==
    SecondReorder(run) => run.affected_rows = 0 /\ episode = before.lib[3]
C20_ReorderIdempotent == ReorderCompacts /\ ReorderIdempotent

\* a second reorder directly after a first that had moved two episodes from
\* the indices 2 and 3 to 1 and 2
C20_Witness ==
    /\ SecondReorder(run)
    /\ before.run.affected_rows = 2
    /\ {before.run.eps[j].episode_index : j \in 1..Len(before.run.eps)} = GapTargets
    /\ Cardinality(EpisodesOfSource(run.source_id)) = 2

\* -------------------------------- pause and resume requests (src/src/api/ui.py)
Accepted == 202
Conflict == 409

\* a pause that takes any task that has a row
pause_success_any_row(t) == task_history[t] # NoRow

\* the value TaskManager.pause_task returns: TRUE for the task the worker
\* holds while it is not paused
pause_success(t) == current = t /\ pause_event

\* the value TaskManager.resume_task returns: TRUE for the task the worker
\* holds while it is paused
resume_success(t) == current = t /\ ~pause_event

\* POST /tasks/{task_id}/pause: 202, or 409 when pause_task returned False
PauseCall(t) ==
    /\ phase = "up"
    /\ Len(calls) < MaxCalls
    /\ IF pause_success(t)
       THEN /\ pause_event' = FALSE
            /\ task_history' = update_task_status(task_history, t, PAUSED)
       ELSE UNCHANGED <<pause_event, task_history>>
    /\ calls' = Append(calls, [op |-> "pause", id |-> t, status |-> task_history[t].status,
                               code |-> IF pause_success(t) THEN Accepted ELSE Conflict])
    /\ UNCHANGED <<libvars, next_task, queue, current, abort_flag, phase, crashes, run,
                   abort_h, delete_h, outcome, wrote, interrupted, assigned,
                   now, probe, cachevars, before, extvars>>

\* POST /tasks/{task_id}/resume: 202, or 409 when resume_task returned False
ResumeCall(t) ==
    /\ phase = "up"
    /\ Len(calls) < MaxCalls
    /\ IF resume_success(t)
       THEN /\ pause_event' = TRUE
            /\ task_history' = update_task_status(task_history, t, RUNNING)
       ELSE UNCHANGED <<pause_event, task_history>>
    /\ calls' = Append(calls, [op |-> "resume", id |-> t, status |-> task_history[t].status,
                               code |-> IF resume_success(t) THEN Accepted ELSE Conflict])
    /\ UNCHANGED <<libvars, next_task, queue, current, abort_flag, phase, crashes, run,
                   abort_h, delete_h, outcome, wrote, interrupted, assigned,
                   now, probe, cachevars, before, extvars>>

PauseCalls == \E t \in TaskIds : PauseCall(t)
ResumeCalls == \E t \in TaskIds : ResumeCall(t)

NextPause ==
    \/ StartupReconcile
    \/ StartupEngine
    \/ ImportEngineRequest
    \/ WorkerPull
    \/ progress_callback
    \/ GetEpisodes
    \/ GetComments
    \/ W_Anime
    \/ W_Source
    \/ W_Episode
    \/ W_Comments
    \/ W_Count
    \/ WorkerFinalize
    \/ PauseCalls
    \/ ResumeCalls
SpecPause == Init /\ [][NextPause]_vars

\* the step is a pause or resume request, and the record it leaves
Answered == Len(calls') = Len(calls) + 1
Answer == calls'[Len(calls')]
\* the rows of the tasks other than t are as they were
OthersKept(t) == \A u \in TaskIds : u # t => task_history'[u] = task_history[u]

\* C21: an accepted pause names the task the worker holds while it runs, an
\* accepted resume the task the worker holds while it is paused, and each
\* changes the row of that task only; a rejected request changes nothing, and
\* a pause request naming a PENDING task is rejected with 409
C21_PauseResumeOnlyCurrent ==
    [][Answered =>
        /\ Answer.code = Accepted =>
              /\ current = Answer.id
              /\ Answer.op = "pause" =>
                    /\ pause_event /\ Answer.status = RUNNING
                    /\ task_history'[Answer.id].status = PAUSED
              /\ Answer.op = "resume" =>
                    /\ ~pause_event /\ Answer.status = PAUSED
                    /\ task_history'[Answer.id].status = RUNNING
              /\ OthersKept(Answer.id)
              /\ UNCHANGED <<queue, run, current, libvars>>
        /\ Answer.code = Conflict => UNCHANGED progvars
        /\ (Answer.op = "pause" /\ Answer.status = PENDING) => Answer.code = Conflict]_vars

\* a pause naming a PENDING task was rejected while another task ran, and a
\* pause naming the running task was accepted
C21_Witness ==
    /\ Len(calls) = 2
    /\ calls[1].op = "pause" /\ calls[1].status = PENDING /\ calls[1].code = Conflict
    /\ calls[2].op = "pause" /\ calls[2].status = RUNNING /\ calls[2].code = Accepted
    /\ task_history[calls[1].id].status = PENDING
    /\ task_history[calls[2].id].status = PAUSED

\* ------------------------------------------ deleting the row of a running task
\* the step is the DELETE of the delete handler, and it removes the row of
\* the task the worker holds
DeletesRowOfCurrent ==
    /\ delete_h # NoDelete /\ delete_h.stage = "row" /\ delete_h' = NoDelete
    /\ current # NoTask /\ current = delete_h.task
    /\ task_history[current] # NoRow /\ task_history'[current] = NoRow

\* C22: when the delete handler removes the row of the task the worker holds,
\* that task has been told to abort before
C22_AbortBeforeDelete == [][DeletesRowOfCurrent => abort_flag]_vars

\* ---------------------------------------------- scraper registry (src/src/crud.py)
Providers == {"tencent", "iqiyi", "gamer"}
Range(f) == {f[i] : i \in DOMAIN f}
\* the lists a discovery can yield: provider names without repetition
Discoveries ==
    {d \in UNION {[1..n -> Providers] : n \in 0..Cardinality(Providers)} :
        \A i, j \in DOMAIN d : d[i] = d[j] => i = j}

\* SELECT MAX(display_order) FROM scrapers, or 0
MaxDisplayOrder(table) ==
    IF table = {} THEN 0
    ELSE CHOOSE m \in {r.display_order : r \in table} :
            \A r \in table : r.display_order <= m

\* sync_scrapers_to_db: the names not in the table are inserted after the
\* greatest display_order, enabled by the column default; nothing else changes
sync_scrapers_to_db(table, provider_names) ==
    LET existing_providers == {r.provider_name : r \in table}
        new_providers == SelectSeq(provider_names, LAMBDA name : name \notin existing_providers)
    IN  IF provider_names = <<>> \/ new_providers = <<>> THEN table
        ELSE table \cup {[provider_name |-> new_providers[i],
                          display_order |-> MaxDisplayOrder(table) + i,
                          is_enabled |-> TRUE] : i \in DOMAIN new_providers}

\* a pruning that does not look at the length of the list
remove_stale_scrapers_unguarded(table, discovered_providers) ==
    {r \in table : r.provider_name \in Range(discovered_providers)}

\* remove_stale_scrapers: DELETE FROM scrapers WHERE provider_name NOT IN (...),
\* skipped for an empty list
remove_stale_scrapers(table, discovered_providers) ==
    IF discovered_providers = <<>> THEN table
    ELSE {r \in table : r.provider_name \in Range(discovered_providers)}

\* ScraperManager.load_and_sync_scrapers (main.py:49, ui.py:698): the
\* discovered names are synced to the table and the stale rows pruned
load_and_sync_scrapers(d) ==
    /\ loads < MaxLoads
    /\ \A r \in sync_scrapers_to_db(scrapers, d) : r.display_order <= MaxOrder
    /\ scrapers' = remove_stale_scrapers(sync_scrapers_to_db(scrapers, d), d)
    /\ discovered' = d
    /\ loads' = loads + 1
    /\ UNCHANGED <<progvars, purevars, before, import_h, searched, parsed, netvars, dbvars>>
LoadAndSync == \E d \in Discoveries : load_and_sync_scrapers(d)

\* update_scrapers_settings: UPDATE scrapers SET is_enabled = %s ... WHERE provider_name = %s
update_scrapers_settings(name, enabled) ==
    /\ scrapers' = {IF r.provider_name = name THEN [r EXCEPT !.is_enabled = enabled] ELSE r :
                       r \in scrapers}
    /\ UNCHANGED <<discovered, loads, progvars, purevars, before, import_h, searched, parsed, netvars, dbvars>>
UpdateScraperSettings ==
    \E name \in Providers, enabled \in BOOLEAN : update_scrapers_settings(name, enabled)

NextRegistry ==
    \/ LoadAndSync
    \/ UpdateScraperSettings
SpecRegistry == Init /\ [][NextRegistry]_vars

\* the step syncs a discovery to the table
Synced == loads' = loads + 1

\* C23: a sync of a non-empty discovery leaves exactly the rows of the
\* discovered providers, those that existed as they were; a sync of an empty
\* discovery removes no row of the scrapers table
C23_PruneUnlessEmpty ==
    [][Synced =>
        IF discovered' = <<>> THEN scrapers' = scrapers
        ELSE /\ {r.provider_name : r \in scrapers'} = Range(discovered')
             /\ \A r \in scrapers : r.provider_name \in Range(discovered') <=> r \in scrapers']_vars

\* a table with rows after a sync of an empty discovery that followed a sync
\* which had pruned a row
C23_Witness ==
    /\ loads = 3
    /\ discovered = <<>>
    /\ {r.provider_name : r \in scrapers} = {"iqiyi"}
    /\ \E r \in scrapers : r.display_order = 2 /\ ~r.is_enabled

\* ------------------------------- import_from_provider, split at its two awaits
regvars == <<scrapers, discovered, loads>>

\* import_from_provider up to the answer of check_source_exists_by_media_id:
\* a full import of a (provider, media_id) that has a Source is answered 409
ImportCheck(r, tg) ==
    /\ phase = "up"
    /\ import_h = NoImport
    /\ next_task < MaxTasks
    /\ tg = 0 => ~check_source_exists_by_media_id(r.provider, r.media_id)
    /\ import_h' = [req |-> r, target |-> tg]
    /\ UNCHANGED <<progvars, purevars, before, regvars, searched, parsed, netvars, dbvars>>
ImportChecks == \E tg \in {0, 1} : ImportCheck(EngineRequest, tg)

\* import_from_provider after the check: task_manager.submit_task(task_coro, task_title)
ImportSubmit ==
    /\ phase = "up"
    /\ import_h # NoImport
    /\ Len(queue) < MaxQueue
    /\ next_task' = next_task + 1
    /\ task_history' = create_task_in_history(task_history, next_task + 1, PENDING, DescPending)
    /\ queue' = Append(queue, Task(next_task + 1, "import", import_h.req, import_h.target))
    /\ import_h' = NoImport
    /\ UNCHANGED <<libvars, current, pause_event, abort_flag, phase, crashes, run,
                   abort_h, delete_h, outcome, wrote, interrupted, assigned,
                   purevars, before, regvars, searched, parsed, netvars, dbvars>>

NextConflict ==
    \/ StartupReconcile
    \/ StartupEngine
    \/ ImportChecks
    \/ ImportSubmit
    \/ WorkerPull
    \/ progress_callback
    \/ GetEpisodes
    \/ GetComments
    \/ W_Anime
    \/ W_Source
    \/ W_Episode
    \/ W_Comments
    \/ W_Count
    \/ WorkerFinalize
SpecConflict == Init /\ [][NextConflict]_vars

\* the step accepts a task, and the task it accepts
Accepts == Len(queue') = Len(queue) + 1
AcceptedTask == queue'[Len(queue')]

\* C24: no full import is accepted for a (provider, media_id) that has a
\* Source when the task is accepted
C24_NoFullImportOfExistingSource ==
    [][(Accepts /\ AcceptedTask.kind = "import" /\ AcceptedTask.target = 0)
          => ~check_source_exists_by_media_id(AcceptedTask.req.provider,
                                              AcceptedTask.req.media_id)]_vars

\* ------------------------------------------ scraper search (src/src/scrapers)
SearchProviders == {"tencent", "renren"}

\* what the HTTP call of a search can do: a body with results, a body without,
\* or an exception (httpx.ConnectError is also what a DNS failure raises)
TransportFailures == {"ReadTimeout", "ConnectTimeout", "ConnectError"}
Failures == TransportFailures \cup {"HTTPStatusError", "ValidationError"}
Responses == {"results", "empty"} \cup Failures

\* the base class of each exception class, up to Exception
BaseOf(cls) ==
    CASE cls = "ReadTimeout" -> "TimeoutException"
      [] cls = "ConnectTimeout" -> "TimeoutException"
      [] cls = "TimeoutException" -> "TransportError"
      [] cls = "ConnectError" -> "NetworkError"
      [] cls = "NetworkError" -> "TransportError"
      [] cls = "TransportError" -> "RequestError"
      [] cls = "RequestError" -> "HTTPError"
      [] cls = "HTTPStatusError" -> "HTTPError"
      [] cls = "ValidationError" -> "ValueError"
      [] cls = "KeyError" -> "LookupError"
      [] OTHER -> "Exception"

\* isinstance(e, cls) for an exception of class e
RECURSIVE IsInstance(_, _)
IsInstance(e, cls) ==
    IF e = cls THEN TRUE
    ELSE IF e = "Exception" THEN FALSE
    ELSE IsInstance(BaseOf(e), cls)

\* the classes named by the except clauses around the HTTP call of search
ExceptClauses(provider) ==
    IF provider = "tencent" THEN {"HTTPStatusError", "ValidationError", "KeyError"}
    ELSE {"Exception"}

Catches(provider, e) == \E cls \in ExceptClauses(provider) : IsInstance(e, cls)

\* search(keyword): a cache hit is returned; otherwise the HTTP call is made,
\* a caught exception leaves results = [], the results are cached through
\* _set_to_cache and returned; an exception that is not caught leaves search
Search(response) ==
    LET cached == get_cache(ScraperKey)
        escapes == response \in Failures /\ ~Catches(searched.provider, response)
        results == IF response = "results" THEN PyList(<<"r1">>) ELSE PyList(<<>>)
    IN  /\ searched.provider # None
        /\ IF cached # PyNone
           THEN /\ searched' = [searched EXCEPT !.response = "cached", !.raised = None,
                                                !.value = cached]
                /\ got' = [key |-> ScraperKey, value |-> cached, at |-> now,
                           ttl |-> config["search_ttl_seconds"]]
                /\ UNCHANGED <<cache_data, ttl_config, last_set>>
           ELSE IF escapes
           THEN /\ searched' = [searched EXCEPT !.response = response, !.raised = response,
                                                !.value = PyNone]
                /\ got' = NoGot
                /\ UNCHANGED <<cache_data, ttl_config, last_set>>
           ELSE /\ searched' = [searched EXCEPT !.response = response, !.raised = None,
                                                !.value = results]
                /\ cache_data' = IF get_ttl > 0 THEN set_cache(ScraperKey, results, get_ttl)
                                 ELSE cache_data
                /\ last_set' = [last_set EXCEPT ![ScraperKey] =
                                   [value |-> results, at |-> now, ttl |-> get_ttl]]
                /\ ttl_config' = get_ttl
                /\ got' = NoGot
        /\ UNCHANGED <<config, now, progvars, probe, calls, before, regvars, import_h, parsed, netvars, dbvars>>
Searches == \E response \in Responses : Search(response)

InitSearch ==
    /\ Constructed
    /\ now = 0
    /\ probe = NoProbe
    /\ EmptyCache
    /\ calls = <<>>
    /\ before = NoBefore
    /\ InitRegistry
    /\ searched \in {[NoSearch EXCEPT !.provider = p] : p \in SearchProviders}
    /\ parsed = NoParse
    /\ InitNet
    /\ InitDb

NextSearch ==
    \/ Searches
    \/ Tick
    \/ UpdateConfig
    \/ ClearExpired
SpecSearch == InitSearch /\ [][NextSearch]_vars

\* the last search met a transport failure
TransportFailed == searched.response \in TransportFailures

\* C25: a search whose HTTP call fails at the transport raises nothing and
\* returns an empty list
C25_SearchNeverRaises ==
    TransportFailed => searched.raised = None /\ searched.value = PyList(<<>>)

(***************************************************************************)
(* Search keywords (api/ui.py parse_search_keyword).  A keyword is a       *)
(* sequence of characters; the characters outside ASCII are written by     *)
(* name: "DI" is 第, "ER" is 二, "JI" is 季, "BU" is 部, "RN3" is Ⅲ.         *)
(***************************************************************************)
MaxKeywordLen == 4

Chars == {"a", " ", "S", "E", "0", "1", "2", "DI", "ER", "JI", "RN3", "I"}
Keywords == UNION {[1..n -> Chars] : n \in 0..MaxKeywordLen}

DigitChars == <<"0", "1", "2", "3", "4", "5", "6", "7", "8", "9">>
IsDigit(c) == \E d \in 1..Len(DigitChars) : DigitChars[d] = c
DigitValue(c) == (CHOOSE d \in 1..Len(DigitChars) : DigitChars[d] = c) - 1
IsSpace(c) == c = " "

\* re.IGNORECASE on the letters the patterns name
Upper(c) ==
    CASE c = "s" -> "S" [] c = "e" -> "E" [] c = "i" -> "I" [] c = "v" -> "V"
      [] c = "x" -> "X" [] c = "l" -> "L" [] c = "c" -> "C" [] c = "d" -> "D"
      [] c = "m" -> "M" [] c = "n" -> "N" [] c = "o" -> "O" [] c = "a" -> "A"
      [] OTHER -> c

\* k[a..b] holds only characters of one class
Spaces(k, a, b) == \A x \in a..b : IsSpace(k[x])
AllDigits(k, a, b) == \A x \in a..b : IsDigit(k[x])

\* str.strip()
RECURSIVE LStrip(_)
LStrip(k) == IF k # <<>> /\ IsSpace(Head(k)) THEN LStrip(Tail(k)) ELSE k
RECURSIVE RStrip(_)
RStrip(k) ==
    IF k # <<>> /\ IsSpace(k[Len(k)]) THEN RStrip(SubSeq(k, 1, Len(k) - 1)) ELSE k
Strip(k) == RStrip(LStrip(k))

\* int() of a string of decimal digits
RECURSIVE IntOf(_)
IntOf(g) ==
    IF g = <<>> THEN 0
    ELSE 10 * IntOf(SubSeq(g, 1, Len(g) - 1)) + DigitValue(g[Len(g)])

\* the handlers raise ValueError on a group they cannot convert
ValueError == -2

RomanLetters == {"I", "V", "X", "L", "C", "D", "M"}
roman_map(c) ==
    CASE c = "I" -> 1 [] c = "V" -> 5 [] c = "X" -> 10 [] c = "L" -> 50
      [] c = "C" -> 100 [] c = "D" -> 500 [] c = "M" -> 1000

RECURSIVE _roman_to_int(_)
_roman_to_int(g) ==
    IF g = <<>> THEN 0
    ELSE IF Len(g) > 1 /\ roman_map(Upper(g[1])) < roman_map(Upper(g[2]))
         THEN roman_map(Upper(g[2])) - roman_map(Upper(g[1]))
              + _roman_to_int(SubSeq(g, 3, Len(g)))
         ELSE roman_map(Upper(g[1])) + _roman_to_int(Tail(g))

ChineseNumerals == {"ER"}
ChineseValue(c) == CASE c = "ER" -> 2
RomanSigns == {"RN3"}
RomanSignValue(c) == CASE c = "RN3" -> 3

\* the end of the shortest title after which the rest of the keyword
\* matches (the title group is lazy); Null when no title does
FirstSplit(k, Rest(_, _), shortest) ==
    LET ends == {i \in shortest..Len(k) : Rest(k, i)}
    IN IF ends = {} THEN Null ELSE CHOOSE i \in ends : \A j \in ends : i <= j

\* \s*S(\d{1,2})E(\d{1,4})$ after the title k[1..i]; <<j, m>> are the ends
\* of the white space and of the season digits
SEParts(k, i) ==
    {jm \in (i..Len(k)) \X (i..Len(k)) :
        /\ Spaces(k, i + 1, jm[1])
        /\ jm[1] + 1 <= Len(k) /\ Upper(k[jm[1] + 1]) = "S"
        /\ jm[2] - (jm[1] + 1) \in 1..2 /\ AllDigits(k, jm[1] + 2, jm[2])
        /\ jm[2] + 1 <= Len(k) /\ Upper(k[jm[2] + 1]) = "E"
        /\ Len(k) - (jm[2] + 1) \in 1..4 /\ AllDigits(k, jm[2] + 2, Len(k))}
SERest(k, i) == SEParts(k, i) # {}

\* the group of digits that ends the keyword, of one or two digits
LastDigits(k) ==
    IF Len(k) > 1 /\ IsDigit(k[Len(k) - 1])
    THEN SubSeq(k, Len(k) - 1, Len(k)) ELSE SubSeq(k, Len(k), Len(k))

\* \s*(?:S|Season)\s*(\d{1,2})$
SeasonWords == {<<"S">>, <<"S", "E", "A", "S", "O", "N">>}
WordAt(k, j, w) ==
    /\ j + Len(w) <= Len(k)
    /\ \A x \in 1..Len(w) : Upper(k[j + x]) = w[x]
SRest(k, i) ==
    \E j \in i..Len(k), w \in SeasonWords :
        /\ Spaces(k, i + 1, j)
        /\ WordAt(k, j, w)
        /\ \E q \in (j + Len(w))..Len(k) :
              /\ Spaces(k, j + Len(w) + 1, q)
              /\ Len(k) - q \in 1..2 /\ AllDigits(k, q + 1, Len(k))

\* \s*第\s*([一二三四五六七八九十\d]+)\s*[季部]$ ; <<j, p, q>> are the ends of
\* the white space before 第, of the white space after it and of the group
IsNumeral(c) == c \in ChineseNumerals \/ IsDigit(c)
DiParts(k, i) ==
    {t \in (i..Len(k)) \X (i..Len(k)) \X (i..Len(k)) :
        /\ Spaces(k, i + 1, t[1])
        /\ t[1] + 1 <= Len(k) /\ k[t[1] + 1] = "DI"
        /\ t[1] + 1 <= t[2] /\ Spaces(k, t[1] + 2, t[2])
        /\ t[2] < t[3] /\ \A x \in (t[2] + 1)..t[3] : IsNumeral(k[x])
        /\ t[3] < Len(k) /\ Spaces(k, t[3] + 1, Len(k) - 1)
        /\ k[Len(k)] \in {"JI", "BU"}}
DiRest(k, i) == DiParts(k, i) # {}
DiGroup(k, i) ==
    LET t == CHOOSE u \in DiParts(k, i) : TRUE IN SubSeq(k, t[2] + 1, t[3])

\* \s*([Ⅰ-Ⅻ])$
SignRest(k, i) ==
    /\ i < Len(k) /\ Spaces(k, i + 1, Len(k) - 1)
    /\ k[Len(k)] \in RomanSigns

\* \s+([IVXLCDM]+)$ ; j is the end of the white space
LetterRest(k, i) ==
    \E j \in (i + 1)..(Len(k) - 1) :
        /\ Spaces(k, i + 1, j)
        /\ \A x \in (j + 1)..Len(k) : Upper(k[x]) \in RomanLetters
LetterGroup(k, i) ==
    LET j == CHOOSE x \in (i + 1)..(Len(k) - 1) :
                 /\ Spaces(k, i + 1, x)
                 /\ \A y \in (x + 1)..Len(k) : Upper(k[y]) \in RomanLetters
    IN SubSeq(k, j + 1, Len(k))

\* \s+(\d{1,2})$
NumberRest(k, i) ==
    \E j \in (i + 1)..(Len(k) - 1) :
        /\ Spaces(k, i + 1, j)
        /\ Len(k) - j \in 1..2 /\ AllDigits(k, j + 1, Len(k))

\* the handler of each season pattern, applied to the match with title k[1..i]
ChineseHandler(g) ==
    IF Len(g) = 1 /\ g[1] \in ChineseNumerals THEN ChineseValue(g[1])
    ELSE IF AllDigits(g, 1, Len(g)) THEN IntOf(g) ELSE ValueError

\* title[-4:].isdigit() on a title longer than four characters
LooksLikeYear(title) ==
    Len(title) > 4 /\ AllDigits(title, Len(title) - 3, Len(title))

\* one entry of season_patterns: [matched, title, season]
SeasonMatch(k, n) ==
    LET i == CASE n = 1 -> FirstSplit(k, SRest, 0)
               [] n = 2 -> FirstSplit(k, DiRest, 0)
               [] n = 3 -> FirstSplit(k, SignRest, 0)
               [] n = 4 -> FirstSplit(k, LetterRest, 0)
               [] n = 5 -> FirstSplit(k, NumberRest, 0)
    IN IF i = Null THEN [matched |-> FALSE, title |-> <<>>, season |-> Null]
       ELSE [matched |-> TRUE,
             title |-> Strip(SubSeq(k, 1, i)),
             season |-> CASE n = 1 -> IntOf(LastDigits(k))
                          [] n = 2 -> ChineseHandler(DiGroup(k, i))
                          [] n = 3 -> RomanSignValue(k[Len(k)])
                          [] n = 4 -> _roman_to_int(LetterGroup(k, i))
                          [] n = 5 -> IntOf(LastDigits(k))]

\* the entry returns: it matched, its handler raised nothing, the season is
\* truthy and the title does not end in a year
Returns(m) ==
    /\ m.matched
    /\ m.season # ValueError /\ m.season # 0
    /\ ~LooksLikeYear(m.title)

parse_search_keyword(keyword) ==
    LET k == Strip(keyword)
        se == FirstSplit(k, SERest, 1)
        hits == {n \in 1..5 : Returns(SeasonMatch(k, n))}
    IN IF se # Null
       THEN LET jm == CHOOSE u \in SEParts(k, se) : TRUE
            IN [title |-> Strip(SubSeq(k, 1, se)),
                season |-> IntOf(SubSeq(k, jm[1] + 2, jm[2])),
                episode |-> IntOf(SubSeq(k, jm[2] + 2, Len(k)))]
       ELSE IF hits # {}
       THEN LET m == SeasonMatch(k, CHOOSE n \in hits : \A o \in hits : n <= o)
            IN [title |-> m.title, season |-> m.season, episode |-> Null]
       ELSE [title |-> k, season |-> Null, episode |-> Null]

Parse ==
    /\ ~parsed.done
    /\ parsed' = [parsed EXCEPT !.done = TRUE,
                                !.result = parse_search_keyword(parsed.keyword)]
    /\ UNCHANGED <<progvars, purevars, before, regvars, import_h, searched, netvars, dbvars>>

InitParse ==
    /\ Constructed
    /\ now = 0
    /\ probe = NoProbe
    /\ EmptyCache
    /\ calls = <<>>
    /\ before = NoBefore
    /\ InitRegistry
    /\ searched = NoSearch
    /\ InitNet
    /\ InitDb
    /\ parsed \in {[NoParse EXCEPT !.keyword = k] : k \in Keywords}

NextParse == Parse
SpecParse == InitParse /\ [][NextParse]_vars

NaturalOrNull(v) == v = Null \/ v \in Nat

\* C26: the result of parsing any keyword has a non-empty title, and a season
\* and an episode that are each a natural number or null
C26_ParsedTitleNonEmpty ==
    parsed.done =>
        /\ parsed.result.title # <<>>
        /\ NaturalOrNull(parsed.result.season)
        /\ NaturalOrNull(parsed.result.episode)

(***************************************************************************)
(* The write phase of an import (generic_import_task, steps 3 and 4).      *)
(***************************************************************************)
WritePcs == {"w_anime", "w_source", "w_episode", "w_comments", "w_count"}

\* the running import is in its write phase
InWritePhase == phase = "up" /\ current # NoTask /\ run.kind = "import" /\ run.pc \in WritePcs

\* this step ends the running import without success: one of its statements
\* raises, or the process dies under it
FailsNow == run'.exc \in {"error", "cancelled"} \/ phase' = "boot"

\* C27: an import that fails or is cancelled in its write phase leaves none
\* of its writes in the library tables
C27_NoPartialWrites == [][(InWritePhase /\ FailsNow) => ~wrote]_vars

(***************************************************************************)
(* The rate limiter of a scraper instance (scrapers/bilibili.py            *)
(* _request_with_rate_limit, scrapers/renren.py _request and               *)
(* _fetch_episode_danmu).  Time is counted in units of half of the         *)
(* minimum interval; the clock starts past the first interval, as          *)
(* _last_request_time starts at 0.                                         *)
(***************************************************************************)
MaxClock == 5

RateLimited == {"bilibili", "renren"}

Pc(c, pc) == limiter.pc[c] = pc

\* a coroutine enters _request_with_rate_limit (bilibili) or _request (renren)
_request_with_rate_limit(c) ==
    /\ Pc(c, "idle")
    /\ limiter' = [limiter EXCEPT !.pc[c] = "acquire"]

\* async with self._api_lock: now = time.time(); dt = now - self._last_request_time;
\* if dt < self._min_interval: await asyncio.sleep(self._min_interval - dt)
AcquireLock(c) ==
    /\ Pc(c, "acquire")
    /\ limiter.lock = 0
    /\ limiter' =
         IF limiter.clock - limiter.last < MinInterval
         THEN [limiter EXCEPT !.lock = c, !.pc[c] = "sleep",
                 !.wake[c] = limiter.clock + (MinInterval - (limiter.clock - limiter.last))]
         ELSE [limiter EXCEPT !.lock = c, !.pc[c] = "send"]

\* asyncio.sleep returns once the duration has passed
WakeUp(c) ==
    /\ Pc(c, "sleep")
    /\ limiter.clock >= limiter.wake[c]
    /\ limiter' = [limiter EXCEPT !.pc[c] = "send", !.wake[c] = 0]

\* no request of this scraper is in flight and the last one finished at
\* least the minimum interval ago
Spaced == limiter.inflight = 0 /\ limiter.clock >= limiter.finished + MinInterval

\* the request leaves through self.client
Issue(c, pc) ==
    [limiter EXCEPT !.pc[c] = pc, !.inflight = @ + 1,
                    !.sent = [caller |-> c, locked |-> limiter.lock = c, spaced |-> Spaced]]

\* response = await self.client.request(method, url, ...), under the lock
SendRequest(c) ==
    /\ Pc(c, "send")
    /\ limiter' = Issue(c, "wait")

\* the request returns and self._last_request_time = time.time(), or it raises
\* and the lock is released by the async with alone
Respond(c) ==
    /\ Pc(c, "wait")
    /\ \E ok \in BOOLEAN :
         limiter' = [limiter EXCEPT !.pc[c] = "idle", !.inflight = @ - 1, !.lock = 0,
                                    !.finished = limiter.clock,
                                    !.last = IF ok THEN limiter.clock ELSE @]

\* a coroutine enters RenrenScraper._fetch_episode_danmu
_fetch_episode_danmu(c) ==
    /\ limiter.scraper = "renren"
    /\ Pc(c, "idle")
    /\ limiter' = [limiter EXCEPT !.pc[c] = "direct"]

\* resp = await self.client.get(url, timeout=20.0, headers=headers)
SendDirect(c) ==
    /\ Pc(c, "direct")
    /\ limiter' = Issue(c, "wait_direct")

\* the response, or the exception the function catches
RespondDirect(c) ==
    /\ Pc(c, "wait_direct")
    /\ limiter' = [limiter EXCEPT !.pc[c] = "idle", !.inflight = @ - 1,
                                  !.finished = limiter.clock]

ClockTick ==
    /\ limiter.clock < MaxClock
    /\ limiter' = [limiter EXCEPT !.clock = @ + 1]

LimiterFrame == UNCHANGED <<progvars, purevars, before, regvars, import_h, searched,
                            parsed, session, dbvars>>

InitLimiter ==
    /\ Constructed
    /\ now = 0
    /\ probe = NoProbe
    /\ EmptyCache
    /\ calls = <<>>
    /\ before = NoBefore
    /\ InitRegistry
    /\ searched = NoSearch
    /\ parsed = NoParse
    /\ session = IdleSession
    /\ InitDb
    /\ limiter \in {[IdleLimiter EXCEPT !.scraper = s] : s \in RateLimited}

EnterLimited == \E c \in Callers : _request_with_rate_limit(c) /\ LimiterFrame
Acquires == \E c \in Callers : AcquireLock(c) /\ LimiterFrame
Wakes == \E c \in Callers : WakeUp(c) /\ LimiterFrame
Sends == \E c \in Callers : SendRequest(c) /\ LimiterFrame
Responds == \E c \in Callers : Respond(c) /\ LimiterFrame
EnterDirect == \E c \in Callers : _fetch_episode_danmu(c) /\ LimiterFrame
DirectSends == \E c \in Callers : SendDirect(c) /\ LimiterFrame
DirectResponds == \E c \in Callers : RespondDirect(c) /\ LimiterFrame
ClockTicks == ClockTick /\ LimiterFrame

NextLimiter ==
    \/ EnterLimited
    \/ Acquires
    \/ Wakes
    \/ Sends
    \/ Responds
    \/ EnterDirect
    \/ DirectSends
    \/ DirectResponds
    \/ ClockTicks
SpecLimiter == InitLimiter /\ [][NextLimiter]_vars

\* C28: every request a scraper sends leaves under the scraper's lock, and
\* no earlier than the minimum interval after its previous request finished
C28_EveryRequestRateLimited == limiter.sent.locked /\ limiter.sent.spaced

(***************************************************************************)
(* The session of the gamer scraper (scrapers/gamer.py _request_with_retry *)
(* and _refresh_cookie).  A cookie is written as the number of the         *)
(* Set-Cookie that carried it; 0 is the empty cookie string.               *)
(***************************************************************************)
\* what self.client.request gives: a good page, a page asking to log in, a
\* status other than 200, or an exception of the transport
Replies == {"ok", "login", "status", "raised"}
\* response.status_code == 200 and not is_login_required
Passes(r) == r = "ok"
\* what the token endpoint gives: a new cookie, none, or a failure
Tokens == {"set_cookie", "no_cookie", "failed"}

\* where a call goes once _refresh_cookie has returned, always replaying
AfterRefreshReplaying(call, ok) ==
    [call EXCEPT !.refreshed = ok, !.pc = "replay", !.sends = @ + 1]

\* if await self._refresh_cookie(): response = await self.client.request(...)
\* return response
AfterRefresh(call, ok) ==
    IF ok THEN [call EXCEPT !.refreshed = TRUE, !.pc = "replay", !.sends = @ + 1]
    ELSE [call EXCEPT !.refreshed = FALSE, !.pc = "done", !.returned = call.first]

\* a coroutine calls _request_with_retry: response = await self.client.request(...)
_request_with_retry(c) ==
    /\ session.call[c].pc = "idle"
    /\ session' = [session EXCEPT !.call[c].pc = "request", !.call[c].sends = 1]

\* the first response: returned when it passes, raised on when the transport
\* failed, answered with _refresh_cookie otherwise
FirstResponse(c, r) ==
    /\ session.call[c].pc = "request"
    /\ session' =
         IF Passes(r) \/ r = "raised"
         THEN [session EXCEPT !.call[c].first = r, !.call[c].returned = r,
                              !.call[c].pc = "done"]
         ELSE [session EXCEPT !.call[c].first = r, !.call[c].refreshes = @ + 1,
                              !.call[c].pc = "refresh"]

\* _refresh_cookie after its POST: the jar takes the Set-Cookie, and
\* new_cookie_str is compared with self._cookie
MaxCookies == 2
JarAfter(token) == IF token = "set_cookie" THEN session.jar + 1 ELSE session.jar
RefreshResponse(c, token) ==
    /\ session.call[c].pc = "refresh"
    /\ token = "set_cookie" => session.jar < MaxCookies
    /\ session' =
         IF token # "failed" /\ JarAfter(token) # 0 /\ JarAfter(token) # session.cookie
         THEN [session EXCEPT !.jar = JarAfter(token), !.call[c].pc = "save",
                              !.call[c].new_cookie = JarAfter(token)]
         ELSE [session EXCEPT !.jar = JarAfter(token),
                              !.call[c] = AfterRefresh(session.call[c], FALSE)]

\* await crud.update_config_value(...); self._cookie = new_cookie_str; return True
\* (the except clauses return False when the update raises)
SaveCookie(c, saved) ==
    /\ session.call[c].pc = "save"
    /\ session' =
         [session EXCEPT !.cookie = IF saved THEN session.call[c].new_cookie ELSE @,
                         !.call[c] = AfterRefresh(session.call[c], saved)]

\* the replayed response is returned as it is
ReplayResponse(c, r) ==
    /\ session.call[c].pc = "replay"
    /\ session' = [session EXCEPT !.call[c].returned = r, !.call[c].pc = "done"]

SessionFrame == UNCHANGED <<progvars, purevars, before, regvars, import_h, searched,
                            parsed, limiter, dbvars>>

Requests == \E c \in Callers : _request_with_retry(c) /\ SessionFrame
FirstResponses == \E c \in Callers, r \in Replies : FirstResponse(c, r) /\ SessionFrame
RefreshResponses == \E c \in Callers, t \in Tokens : RefreshResponse(c, t) /\ SessionFrame
SaveCookies == \E c \in Callers, saved \in BOOLEAN : SaveCookie(c, saved) /\ SessionFrame
ReplayResponses == \E c \in Callers, r \in Replies : ReplayResponse(c, r) /\ SessionFrame

NextSession ==
    \/ Requests
    \/ FirstResponses
    \/ RefreshResponses
    \/ SaveCookies
    \/ ReplayResponses
SpecSession == Init /\ [][NextSession]_vars

Returned(c) == session.call[c].pc = "done"
Expired(c) == session.call[c].first \in {"login", "status"}

\* C29 as stated: a call whose first response looks expired refreshes the
\* cookie once and replays the request once
C29_RefreshOnceReplayOnce ==
    \A c \in Callers :
        (Returned(c) /\ Expired(c)) =>
            session.call[c].refreshes = 1 /\ session.call[c].sends = 2

\* C29 amended: a call sends at most two requests and refreshes at most once;
\* a call whose first response looks expired refreshes once, replays once
\* when the refresh brought a new cookie and returns the replayed response,
\* and returns the first response without a replay when it did not
C29_ReplayOnlyAfterRefresh ==
    \A c \in Callers :
        /\ session.call[c].sends <= 2 /\ session.call[c].refreshes <= 1
        /\ Returned(c) =>
             IF Expired(c)
             THEN /\ session.call[c].refreshes = 1
                  /\ session.call[c].sends = (IF session.call[c].refreshed THEN 2 ELSE 1)
                  /\ ~session.call[c].refreshed => session.call[c].returned = session.call[c].first
             ELSE /\ session.call[c].refreshes = 0 /\ session.call[c].sends = 1
                  /\ session.call[c].returned = session.call[c].first

\* a call was replayed after a refresh, met the login page again and
\* returned it
C29_Witness ==
    \E c \in Callers :
        /\ Returned(c) /\ session.call[c].first = "login"
        /\ session.call[c].refreshed /\ session.call[c].sends = 2
        /\ session.call[c].returned = "login"

\* the callers inside _refresh_cookie
Refreshing == {c \in Callers : session.call[c].pc \in {"refresh", "save"}}

\* the refreshes the callers of the scraper have started
RECURSIVE RefreshesOf(_)
RefreshesOf(cs) ==
    IF cs = {} THEN 0
    ELSE LET c == CHOOSE x \in cs : TRUE
         IN session.call[c].refreshes + RefreshesOf(cs \ {c})

\* C30: two refreshes of one scraper never run at the same time, and at most
\* one refresh runs beyond the first
C30_RefreshSerialized == Cardinality(Refreshing) <= 1 /\ RefreshesOf(Callers) <= 2

(***************************************************************************)
(* The TMDB episode mappings of one episode group (crud.py                 *)
(* save_tmdb_episode_group_mappings, find_episode_via_tmdb_mapping).  The  *)
(* table is InnoDB: a reader on another connection sees committed rows.    *)
(***************************************************************************)
MaxSaves == 3

\* group_details.groups as TMDB may send them: a season of two episodes, a
\* special listed after the season, one episode listed in two groups, and a
\* group without episodes
SeasonOfTwo == <<[order |-> 1, episodes |-> <<[id |-> 11, order |-> 0],
                                               [id |-> 12, order |-> 1]>>]>>
SpecialLast == <<[order |-> 1, episodes |-> <<[id |-> 12, order |-> 1]>>],
                 [order |-> 0, episodes |-> <<[id |-> 10, order |-> 0]>>]>>
ListedTwice == <<[order |-> 1, episodes |-> <<[id |-> 11, order |-> 0]>>],
                 [order |-> 2, episodes |-> <<[id |-> 11, order |-> 1]>>]>>
EmptyGroup == <<[order |-> 1, episodes |-> <<>>]>>
GroupDetails == {SeasonOfTwo, SpecialLast, ListedTwice, EmptyGroup}

\* sorted(group_details.groups, key=lambda g: g.order)
RECURSIVE sorted_groups(_)
sorted_groups(groups) ==
    IF groups = <<>> THEN <<>>
    ELSE LET i == CHOOSE x \in 1..Len(groups) :
                      \A y \in 1..Len(groups) :
                          groups[x].order < groups[y].order
                          \/ (groups[x].order = groups[y].order /\ x <= y)
         IN <<groups[i]>> \o sorted_groups(SubSeq(groups, 1, i - 1)
                                           \o SubSeq(groups, i + 1, Len(groups)))

\* the rows of one custom season
SeasonRows(g) ==
    [i \in 1..Len(g.episodes) |->
        [tmdb_episode_id |-> g.episodes[i].id,
         custom_season_number |-> g.order,
         custom_episode_number |-> i,
         absolute_episode_number |-> g.episodes[i].order + 1]]

RECURSIVE Flatten(_)
Flatten(seasons) ==
    IF seasons = <<>> THEN <<>> ELSE SeasonRows(Head(seasons)) \o Flatten(Tail(seasons))

mappings_to_insert(details) == Flatten(sorted_groups(details))

\* UNIQUE KEY idx_group_episode_unique (tmdb_episode_group_id, tmdb_episode_id)
DuplicateEntry(rows) ==
    \E i, j \in 1..Len(rows) : i < j /\ rows[i].tmdb_episode_id = rows[j].tmdb_episode_id

RowSet(rows) == {rows[i] : i \in 1..Len(rows)}

\* DELETE FROM tmdb_episode_mapping on a connection that commits each statement
AfterDeleteAutocommit(t) ==
    [t EXCEPT !.saver.view = {}, !.saver.pc = "deleted", !.committed = {}]

\* DELETE FROM tmdb_episode_mapping WHERE tmdb_episode_group_id = %s, after conn.begin()
AfterDelete(t) == [t EXCEPT !.saver.view = {}, !.saver.pc = "deleted"]

\* async with pool.acquire() ...: await conn.begin()
SaveBegin(details) ==
    /\ tmdb.saver.pc \in {"idle", "committed", "failed"}
    /\ tmdb.saves < MaxSaves
    /\ tmdb' = [tmdb EXCEPT !.saves = @ + 1, !.read = NoRead,
                            !.saver = [pc |-> "begun", details |-> details,
                                       old |-> tmdb.committed, view |-> tmdb.committed]]

SaveDelete ==
    /\ tmdb.saver.pc = "begun"
    /\ tmdb' = AfterDelete(tmdb)

\* if mappings_to_insert: await cursor.executemany(query, mappings_to_insert)
SaveInsert ==
    /\ tmdb.saver.pc = "deleted"
    /\ LET rows == mappings_to_insert(tmdb.saver.details)
       IN tmdb' = IF rows = <<>> THEN [tmdb EXCEPT !.saver.pc = "inserted"]
                  ELSE IF DuplicateEntry(rows) THEN [tmdb EXCEPT !.saver.pc = "raised"]
                  ELSE [tmdb EXCEPT !.saver.pc = "inserted", !.saver.view = RowSet(rows)]

\* await conn.commit()
SaveCommit ==
    /\ tmdb.saver.pc = "inserted"
    /\ tmdb' = [tmdb EXCEPT !.saver.pc = "committed", !.committed = tmdb.saver.view]

\* a statement of the transaction raises (the connection fails, a lock wait times out)
SaveRaise ==
    /\ tmdb.saver.pc \in {"begun", "deleted", "inserted"}
    /\ tmdb' = [tmdb EXCEPT !.saver.pc = "raised"]

\* except Exception: await conn.rollback(); raise
SaveRollback ==
    /\ tmdb.saver.pc = "raised"
    /\ tmdb' = [tmdb EXCEPT !.saver.pc = "failed", !.saver.view = tmdb.committed]

\* find_episode_via_tmdb_mapping on its own connection: the committed rows
ReadMapping ==
    /\ tmdb.saver.pc # "idle"
    /\ tmdb' = [tmdb EXCEPT !.read = [rows |-> tmdb.committed, during |-> tmdb.saver.pc]]

TmdbFrame == UNCHANGED <<progvars, purevars, before, regvars, import_h, searched,
                         parsed, netvars, oauth, reassoc>>

SaveBegins == \E details \in GroupDetails : SaveBegin(details) /\ TmdbFrame
SaveDeletes == SaveDelete /\ TmdbFrame
SaveInserts == SaveInsert /\ TmdbFrame
SaveCommits == SaveCommit /\ TmdbFrame
SaveRaises == SaveRaise /\ TmdbFrame
SaveRollbacks == SaveRollback /\ TmdbFrame
ReadMappings == ReadMapping /\ TmdbFrame

NextTmdb ==
    \/ SaveBegins
    \/ SaveDeletes
    \/ SaveInserts
    \/ SaveCommits
    \/ SaveRaises
    \/ SaveRollbacks
    \/ ReadMappings
SpecTmdb == Init /\ [][NextTmdb]_vars

\* the complete mappings before and after the save under way
OldMapping == tmdb.saver.old
NewMapping == RowSet(mappings_to_insert(tmdb.saver.details))

\* C31: while a save of the mappings of a group runs and after it ended, the
\* committed rows and whatever a reader got are the complete old mapping or
\* the complete new one, and after a failed save they are the old mapping
C31_MappingUpdateAtomic ==
    tmdb.saver.pc # "idle" =>
        /\ tmdb.committed \in {OldMapping, NewMapping}
        /\ tmdb.read # NoRead => tmdb.read.rows \in {OldMapping, NewMapping}
        /\ tmdb.saver.pc = "failed" => tmdb.committed = OldMapping

\* a save over an existing mapping failed after its DELETE, a reader looked
\* at the table in between, and the old rows are all there
C31_Witness ==
    /\ tmdb.saver.pc = "failed"
    /\ OldMapping # {}
    /\ tmdb.read = [rows |-> OldMapping, during |-> "deleted"]
    /\ tmdb.committed = OldMapping

(***************************************************************************)
(* A full refresh whose clearing step fails (crud.py clear_source_data     *)
(* under api/ui.py full_refresh_task).                                     *)
(***************************************************************************)
ClearPcs == {"r_clear_comments", "r_clear_episodes"}

\* one of the DELETE statements of clear_source_data raises: the exception
\* leaves full_refresh_task, which catches nothing
R_ClearFails ==
    /\ current # NoTask /\ phase = "up"
    /\ run.pc \in ClearPcs
    /\ run' = Raise(run, "error", DescFailed)
    /\ UNCHANGED <<libvars, enginevars, wrote, assigned, auxvars>>

NextClear ==
    \/ StartupReconcile
    \/ StartupEngine
    \/ ImportRefreshRequest
    \/ RefreshRequest
    \/ WorkerPull
    \/ progress_callback
    \/ R_Info
    \/ R_ClearComments
    \/ R_ClearEpisodes
    \/ R_ClearFails
    \/ GetEpisodes
    \/ GetComments
    \/ W_Anime
    \/ W_Source
    \/ W_Episode
    \/ W_Comments
    \/ W_Count
    \/ WorkerFinalizeKept
SpecClear == Init /\ [][NextClear]_vars

\* the running full refresh ended in its clearing step
ClearFailed == Ended(run) /\ run.kind = "refresh" /\ run.exc = "error" /\ run.at \in ClearPcs

\* C32: when the clearing step of a full refresh fails, the library holds
\* every Episode and Comment it held when the refresh began
C32_FailedClearKeepsData == ClearFailed => Lib = before.lib

(***************************************************************************)
(* Transport errors while an import fetches comments (the get_comments of  *)
(* scrapers/renren.py and scrapers/gamer.py under generic_import_task).    *)
(***************************************************************************)
TransportRequests == {Req("renren", "a", "A"), Req("gamer", "a", "A")}

\* the classes named by the except clauses around the HTTP call of
\* get_comments: RenrenScraper._fetch_episode_danmu and GamerScraper.get_comments
CommentClauses(provider) ==
    IF provider = "gamer" THEN {"TimeoutException", "ConnectError", "Exception"}
    ELSE {"Exception"}

\* comments = await scraper.get_comments(...) while the HTTP call meets a
\* transport failure: a caught failure makes get_comments return [], any
\* other leaves generic_import_task
GetCommentsFailing(failure) ==
    /\ Running("get_comments")
    /\ run' = IF \E cls \in CommentClauses(run.req.provider) : IsInstance(failure, cls)
              THEN [run EXCEPT !.eps[run.i].comments = {}, !.i = run.i + 1,
                               !.fetched = run.fetched + 1, !.transport = TRUE,
                               !.pc = AfterComments(run.i, Len(run.eps))]
              ELSE Raise([run EXCEPT !.transport = TRUE], "error", DescFailed)
    /\ UNCHANGED auxvars
    /\ UNCHANGED <<libvars, enginevars, wrote, assigned>>
GetCommentsTransport == \E failure \in TransportFailures : GetCommentsFailing(failure)

ImportTransportRequest ==
    /\ next_task < MaxTasks
    /\ \E r \in TransportRequests, tg \in {0, 1} : import_from_provider(r, tg)

NextTransport ==
    \/ StartupReconcile
    \/ StartupEngine
    \/ ImportTransportRequest
    \/ WorkerPull
    \/ progress_callback
    \/ GetEpisodes
    \/ GetComments
    \/ GetCommentsTransport
    \/ W_Anime
    \/ W_Source
    \/ W_Episode
    \/ W_Comments
    \/ W_Count
    \/ WorkerFinalize
SpecTransport == Init /\ [][NextTransport]_vars

\* the worker writes the final row of a task that met a transport error in
\* get_comments
FinalizesAfterTransportError == current # NoTask /\ current' = NoTask /\ run.transport

\* C33: a task that met a transport error in get_comments is marked FAILED
C33_TransportErrorFailsTask ==
    [][FinalizesAfterTransportError => task_history'[current].status = FAILED]_vars

(***************************************************************************)
(* OAuth states (crud.py create_oauth_state, consume_oauth_state).  A      *)
(* state key is the number of its creation, a user id is positive, and 0   *)
(* stands for None.  oauth_states is an InnoDB table: SELECT ... FOR       *)
(* UPDATE waits for the lock of the row and reads the committed row.       *)
(***************************************************************************)
MaxOauthClock == 2
StateTtl == 1
UserIds == {1, 2}

\* state = secrets.token_urlsafe(32); INSERT INTO oauth_states ...
create_oauth_state(user_id) ==
    /\ oauth.created < MaxStates
    /\ oauth' = [oauth EXCEPT !.created = @ + 1,
                   !.rows = @ \cup {[state_key |-> oauth.created + 1, user_id |-> user_id,
                                     expires_at |-> oauth.clock + StateTtl]}]

\* async with pool.acquire() ...: await conn.begin()
ConsumeBegin(c, state) ==
    /\ oauth.consumer[c].pc = "idle"
    /\ oauth' = [oauth EXCEPT !.consumer[c].pc = "select", !.consumer[c].state = state]

\* WHERE state_key = %s AND expires_at > NOW()
ValidRows(state) ==
    {r \in oauth.rows : r.state_key = state /\ r.expires_at > oauth.clock}

\* a SELECT that takes no lock
LocksNothing(locks, state, c) == locks
\* the row locks once the SELECT ... FOR UPDATE of c has found the row
LocksRow(locks, state, c) == [locks EXCEPT ![state] = c]

\* SELECT user_id FROM oauth_states WHERE ... FOR UPDATE; result = fetchone():
\* the statement waits while another transaction holds the lock of the row
ConsumeSelect(c) ==
    LET state == oauth.consumer[c].state
    IN /\ oauth.consumer[c].pc = "select"
       /\ oauth.lock[state] \in {0, c}
       /\ oauth' =
            IF ValidRows(state) = {}
            THEN [oauth EXCEPT !.consumer[c].result = 0, !.consumer[c].pc = "commit"]
            ELSE [oauth EXCEPT !.consumer[c].result =
                                   (CHOOSE r \in ValidRows(state) : TRUE).user_id,
                               !.consumer[c].pc = "delete",
                               !.lock = LocksRow(oauth.lock, state, c)]

\* if result: DELETE FROM oauth_states WHERE state_key = %s (seen by the
\* other connections at the commit)
ConsumeDelete(c) ==
    /\ oauth.consumer[c].pc = "delete"
    /\ oauth' = [oauth EXCEPT !.consumer[c].pc = "commit"]

\* the locks once the transaction of c has ended
Released(locks, c) == [k \in StateKeys |-> IF locks[k] = c THEN 0 ELSE locks[k]]

\* await conn.commit(); return result[0] if result else None
ConsumeCommit(c) ==
    /\ oauth.consumer[c].pc = "commit"
    /\ oauth' = [oauth EXCEPT
                   !.rows = IF oauth.consumer[c].result = 0 THEN @
                            ELSE {r \in @ : r.state_key # oauth.consumer[c].state},
                   !.lock = Released(oauth.lock, c),
                   !.consumer[c].pc = "done",
                   !.consumer[c].returned = oauth.consumer[c].result]

\* except Exception: await conn.rollback(); raise
ConsumeRollback(c) ==
    /\ oauth.consumer[c].pc \in {"select", "delete", "commit"}
    /\ oauth' = [oauth EXCEPT !.lock = Released(oauth.lock, c),
                              !.consumer[c].pc = "raised",
                              !.consumer[c].returned = 0]

OauthTick ==
    /\ oauth.clock < MaxOauthClock
    /\ oauth' = [oauth EXCEPT !.clock = @ + 1]

OauthFrame == UNCHANGED <<progvars, purevars, before, regvars, import_h, searched,
                          parsed, netvars, tmdb, reassoc>>

CreateStates == \E user_id \in UserIds : create_oauth_state(user_id) /\ OauthFrame
ConsumeBegins == \E c \in Callers, state \in StateKeys : ConsumeBegin(c, state) /\ OauthFrame
ConsumeSelects == \E c \in Callers : ConsumeSelect(c) /\ OauthFrame
ConsumeDeletes == \E c \in Callers : ConsumeDelete(c) /\ OauthFrame
ConsumeCommits == \E c \in Callers : ConsumeCommit(c) /\ OauthFrame
ConsumeRollbacks == \E c \in Callers : ConsumeRollback(c) /\ OauthFrame
OauthTicks == OauthTick /\ OauthFrame

NextOauth ==
    \/ CreateStates
    \/ ConsumeBegins
    \/ ConsumeSelects
    \/ ConsumeDeletes
    \/ ConsumeCommits
    \/ ConsumeRollbacks
    \/ OauthTicks
SpecOauth == Init /\ [][NextOauth]_vars

\* the consume calls for a state that returned a user id
Consumed(state) ==
    {c \in Callers : /\ oauth.consumer[c].pc = "done"
                     /\ oauth.consumer[c].state = state
                     /\ oauth.consumer[c].returned # 0}
\* the transactions that have read the row of a state and not ended
HoldingRow(state) ==
    {c \in Callers : /\ oauth.consumer[c].pc \in {"delete", "commit"}
                     /\ oauth.consumer[c].state = state
                     /\ oauth.consumer[c].result # 0}

\* C34: at most one consume call for a state returns the user id, and a
\* transaction that has read the row holds its lock until it ends
C34_StateSingleUse ==
    \A state \in StateKeys :
        /\ Cardinality(Consumed(state)) <= 1
        /\ \A c \in HoldingRow(state) : oauth.lock[state] = c
        /\ Consumed(state) # {} => HoldingRow(state) = {}

\* three consume calls for one state have ended: one returned the user id,
\* the others nothing
C34_Witness ==
    \E state \in StateKeys :
        /\ Cardinality(Consumed(state)) = 1
        /\ \A c \in Callers : oauth.consumer[c].pc = "done" /\ oauth.consumer[c].state = state

\* ------------------------------------------- referential integrity
\* the rows whose parent row is missing
OrphanComments == {c \in comment : ~\E e \in episode : e.id = c.episode_id}
OrphanEpisodes == {e \in episode : ~\E x \in anime_sources : x.id = e.source_id}
OrphanSources == {x \in anime_sources : ~\E a \in anime : a.id = x.anime_id}

\* C35: every Comment's episode_id names an Episode, every Episode's
\* source_id names a Source and every Source's anime_id names a Work
C35_ReferentialIntegrity ==
    /\ OrphanComments = {}
    /\ OrphanEpisodes = {}
    /\ OrphanSources = {}

\* ------------------------------------------- fresh Episode ids
\* create_episode_if_not_exists is about to insert: the (source_id,
\* episode_index) pair has no row and the Source has a rank under its Work
InsertsEpisode ==
    /\ Running("w_episode")
    /\ run.i <= Len(run.eps)
    /\ EpisodeByNaturalKey(run.source_id, run.eps[run.i].index) = {}
    /\ SourceOrder(run.anime_id, run.source_id) # 0
\* the Episodes of other Sources that already hold the id about to be inserted
Collisions ==
    {e \in episode :
        /\ e.id = NewEpisodeId(run.anime_id, SourceOrder(run.anime_id, run.source_id),
                               run.eps[run.i].index)
        /\ e.source_id # run.source_id}

\* single-episode imports of the library requests, up to MaxChain tasks
ImportFreshRequest ==
    /\ next_task < MaxChain
    /\ \E r \in LibRequests, tg \in EpisodeIndexes : import_from_provider(r, tg)
DeleteFreshSource ==
    /\ next_task < MaxChain
    /\ \E sid \in 1..MaxSources : delete_source_from_anime(sid)
\* reassociations requested while the engine is idle
ReassociateIdle == \E a, b \in 1..MaxAnime : current = NoTask /\ Reassociate(a, b)

\* source creations, source deletions and reassociations
NextFresh ==
    \/ StartupReconcile
    \/ StartupEngine
    \/ ImportFreshRequest
    \/ DeleteFreshSource
    \/ WorkerPull
    \/ progress_callback
    \/ GetEpisodes
    \/ GetComments
    \/ W_Anime
    \/ W_Source
    \/ W_Episode
    \/ W_Comments
    \/ W_Count
    \/ D_Delete
    \/ WorkerFinalize
    \/ ReassociateIdle
SpecFresh == Init /\ [][NextFresh]_vars

\* C36: the id generated for a (source_id, episode_index) pair that has no
\* row yet is not the id of an Episode of another Source
C36_FreshIdUnused == InsertsEpisode => Collisions = {}

\* ------------------------------------------- rows left by a restart
\* the tasks the engine of the running process holds
HeldByEngine == {queue[k].id : k \in 1..Len(queue)} \cup ({current} \ {NoTask})
NonTerminalRows == {t \in TaskIds : task_history[t].status \in {PENDING, RUNNING, PAUSED}}

\* C37: once the startup reconciliation has run, every PENDING, RUNNING or
\* PAUSED row belongs to a task the engine of the process holds
C37_NoStaleRows == phase \in {"reconciled", "up"} => NonTerminalRows \subseteq HeldByEngine

\* the rows reconciliation is documented to cover
ActiveRows == {t \in TaskIds : task_history[t].status \in {RUNNING, PAUSED}}

\* C37 (amended): once the startup reconciliation has run, every RUNNING or
\* PAUSED row belongs to a task the engine of the process holds
C37_NoStaleActiveRows == phase \in {"reconciled", "up"} => ActiveRows \subseteq HeldByEngine

\* a restarted process is up: the row of the task the old process was running
\* is FAILED as interrupted, the row of a task it had queued is still PENDING
C37_Witness ==
    /\ phase = "up"
    /\ crashes > 0
    /\ \E t \in TaskIds : task_history[t] = Row(FAILED, DescInterrupted, TRUE)
    /\ \E t \in TaskIds : task_history[t].status = PENDING /\ t \notin HeldByEngine

\* ------------------------------------------- transactions and ticks
\* the reorder engine with pause and resume requests
NextHold ==
    \/ StartupReconcile
    \/ StartupEngine
    \/ ImportGapRequest
    \/ ReorderRequest
    \/ WorkerPull
    \/ progress_callback
    \/ GetEpisodes
    \/ GetComments
    \/ W_Anime
    \/ W_Source
    \/ W_Episode
    \/ W_Comments
    \/ W_Count
    \/ O_List
    \/ O_Update
    \/ O_Commit
    \/ WorkerFinalizeKept
    \/ \E t \in TaskIds : pause_task(t)
    \/ \E t \in TaskIds : resume_task(t)
SpecHold == Init /\ [][NextHold]_vars

\* reorder_episodes_task is between its conn.begin() and its commit or rollback
OpenTransaction ==
    /\ phase = "up" /\ current # NoTask
    /\ run.kind = "reorder"
    /\ run.pc \in {"o_update", "tick_o_episode"}
\* the coroutine is at an awaited progress_callback
AtTick == phase = "up" /\ current # NoTask /\ run.pc \in TickPcs

\* C38: no progress_callback is awaited while the task has a transaction
\* open, so no task is paused with a transaction open
C38_NoTickInTransaction ==
    OpenTransaction => ~AtTick /\ pause_event

\* ------------------------- reassociate_anime_sources, statement by statement
\* the committed library tables
Tables == [anime |-> anime, anime_sources |-> anime_sources, episode |-> episode,
           comment |-> comment]

\* POST /library/anime/{source_anime_id}/reassociate: 400 for equal ids, else
\* crud.reassociate_anime_sources: conn.begin(); the call is made while the
\* engine is idle, and no import is submitted before it returns
ReBegin(a, b) ==
    /\ phase = "up" /\ current = NoTask /\ queue = <<>>
    /\ reassoc.pc \in {"idle", "done"}
    /\ reassoc.calls < MaxCalls
    /\ a # b
    /\ reassoc' = [IdleReassoc EXCEPT !.pc = "origin", !.a = a, !.b = b, !.view = Tables,
                                      !.pre = Tables, !.calls = reassoc.calls + 1]
    /\ UNCHANGED <<anime, anime_sources, episode, comment>>

\* SELECT 1 FROM anime WHERE id = source_anime_id; return False without a row
ReCheckOrigin ==
    /\ reassoc.pc = "origin"
    /\ reassoc' = IF \E w \in reassoc.view.anime : w.id = reassoc.a
                  THEN [reassoc EXCEPT !.pc = "target"]
                  ELSE [reassoc EXCEPT !.pc = "done", !.ok = FALSE]
    /\ UNCHANGED <<anime, anime_sources, episode, comment>>

\* SELECT 1 FROM anime WHERE id = target_anime_id; return False without a row
ReCheckTarget ==
    /\ reassoc.pc = "target"
    /\ reassoc' = IF \E w \in reassoc.view.anime : w.id = reassoc.b
                  THEN [reassoc EXCEPT !.pc = "list"]
                  ELSE [reassoc EXCEPT !.pc = "done", !.ok = FALSE]
    /\ UNCHANGED <<anime, anime_sources, episode, comment>>

\* SELECT id, provider_name, media_id FROM anime_sources WHERE anime_id = %s
ReList ==
    /\ reassoc.pc = "list"
    /\ reassoc' = [reassoc EXCEPT
                     !.todo = SortedSeq({x.id : x \in {y \in reassoc.view.anime_sources :
                                                         y.anime_id = reassoc.a}}),
                     !.pc = "move"]
    /\ UNCHANGED <<anime, anime_sources, episode, comment>>

\* the UPDATE of source sid violates UNIQUE (anime_id, provider_name, media_id)
IntegrityError(view, sid, target) ==
    \E x, y \in view.anime_sources :
        /\ x.id = sid /\ y.id # sid /\ y.anime_id = target
        /\ y.provider_name = x.provider_name /\ y.media_id = x.media_id
EpisodeIdsIn(view, sid) == {e.id : e \in {y \in view.episode : y.source_id = sid}}

\* for src in source_sources: UPDATE anime_sources SET anime_id = %s WHERE
\* id = %s; on IntegrityError delete_anime_source(pool, src['id'], conn) reads
\* the source and its episode ids
ReMove ==
    /\ reassoc.pc = "move"
    /\ reassoc.todo # <<>>
    /\ reassoc' =
         IF IntegrityError(reassoc.view, Head(reassoc.todo), reassoc.b)
         THEN [reassoc EXCEPT !.pc = IF EpisodeIdsIn(reassoc.view, Head(reassoc.todo)) # {}
                                     THEN "dup_comments" ELSE "dup_source"]
         ELSE [reassoc EXCEPT
                 !.view.anime_sources =
                     {IF x.id = Head(reassoc.todo) THEN [x EXCEPT !.anime_id = reassoc.b]
                      ELSE x : x \in reassoc.view.anime_sources},
                 !.todo = Tail(reassoc.todo)]
    /\ UNCHANGED <<anime, anime_sources, episode, comment>>

\* delete_anime_source on the connection of the caller: DELETE FROM comment
ReDupComments ==
    /\ reassoc.pc = "dup_comments"
    /\ reassoc' = [reassoc EXCEPT
                     !.view.comment =
                         {c \in reassoc.view.comment :
                            c.episode_id \notin EpisodeIdsIn(reassoc.view, Head(reassoc.todo))},
                     !.pc = "dup_episodes"]
    /\ UNCHANGED <<anime, anime_sources, episode, comment>>

\* DELETE FROM episode WHERE id IN (...)
ReDupEpisodes ==
    /\ reassoc.pc = "dup_episodes"
    /\ reassoc' = [reassoc EXCEPT
                     !.view.episode = {e \in reassoc.view.episode :
                                         e.source_id # Head(reassoc.todo)},
                     !.pc = "dup_source"]
    /\ UNCHANGED <<anime, anime_sources, episode, comment>>

\* DELETE FROM anime_sources WHERE id = %s; return True
ReDupSource ==
    /\ reassoc.pc = "dup_source"
    /\ reassoc' = [reassoc EXCEPT
                     !.view.anime_sources = {x \in reassoc.view.anime_sources :
                                               x.id # Head(reassoc.todo)},
                     !.todo = Tail(reassoc.todo), !.pc = "move"]
    /\ UNCHANGED <<anime, anime_sources, episode, comment>>

\* a statement of delete_anime_source raises: except Exception: return False,
\* without a rollback on a connection it was given; the caller ignores the
\* result and goes on with the next source
ReSwallow ==
    /\ reassoc.pc \in {"dup_comments", "dup_episodes", "dup_source"}
    /\ reassoc' = [reassoc EXCEPT !.todo = Tail(reassoc.todo), !.pc = "move",
                                  !.swallowed = TRUE]
    /\ UNCHANGED <<anime, anime_sources, episode, comment>>

\* DELETE FROM anime WHERE id = source_anime_id
ReDeleteWork ==
    /\ reassoc.pc = "move"
    /\ reassoc.todo = <<>>
    /\ reassoc' = [reassoc EXCEPT
                     !.view.anime = {w \in reassoc.view.anime : w.id # reassoc.a},
                     !.pc = "commit"]
    /\ UNCHANGED <<anime, anime_sources, episode, comment>>

\* await conn.commit(); return True
ReCommit ==
    /\ reassoc.pc = "commit"
    /\ anime' = reassoc.view.anime
    /\ anime_sources' = reassoc.view.anime_sources
    /\ episode' = reassoc.view.episode
    /\ comment' = reassoc.view.comment
    /\ reassoc' = [reassoc EXCEPT !.pc = "done", !.ok = TRUE]

\* a statement of reassociate_anime_sources, or its commit, raises
ReRaise ==
    /\ reassoc.pc \in {"origin", "target", "list", "move", "commit"}
    /\ reassoc' = [reassoc EXCEPT !.pc = "rollback"]
    /\ UNCHANGED <<anime, anime_sources, episode, comment>>

\* a rollback that keeps what the statements of the transaction wrote
rollback_keeping_writes(r) == r.view
\* the committed tables after conn.rollback()
rollback(r) == Tables

\* except Exception: await conn.rollback(); return False
ReRollback ==
    /\ reassoc.pc = "rollback"
    /\ anime' = rollback(reassoc).anime
    /\ anime_sources' = rollback(reassoc).anime_sources
    /\ episode' = rollback(reassoc).episode
    /\ comment' = rollback(reassoc).comment
    /\ reassoc' = [reassoc EXCEPT !.pc = "done", !.ok = FALSE]

ReassocFrame == UNCHANGED <<next_anime_id, next_source_id, enginevars, run, wrote, assigned,
                            purevars, before, regvars, import_h, searched, parsed, netvars,
                            tmdb, oauth>>

ReBegins == \E a, b \in 1..MaxAnime : ReBegin(a, b) /\ ReassocFrame
ReCheckOrigins == ReCheckOrigin /\ ReassocFrame
ReCheckTargets == ReCheckTarget /\ ReassocFrame
ReLists == ReList /\ ReassocFrame
ReMoves == ReMove /\ ReassocFrame
ReDupsComments == ReDupComments /\ ReassocFrame
ReDupsEpisodes == ReDupEpisodes /\ ReassocFrame
ReDupsSource == ReDupSource /\ ReassocFrame
ReSwallows == ReSwallow /\ ReassocFrame
ReDeletesWork == ReDeleteWork /\ ReassocFrame
ReCommits == ReCommit /\ ReassocFrame
ReRaises == ReRaise /\ ReassocFrame
ReRollbacks == ReRollback /\ ReassocFrame

\* single-episode imports that put (tencent, a) under two Works, submitted
\* while no reassociation is in progress
ImportReassocRequest ==
    /\ next_task < MaxChain
    /\ reassoc.pc \in {"idle", "done"}
    /\ \E r \in MergeRequests : import_from_provider(r, 1)

NextReassoc ==
    \/ StartupReconcile
    \/ StartupEngine
    \/ ImportReassocRequest
    \/ WorkerPull
    \/ progress_callback
    \/ GetEpisodes
    \/ GetComments
    \/ W_Anime
    \/ W_Source
    \/ W_Episode
    \/ W_Comments
    \/ W_Count
    \/ WorkerFinalize
    \/ ReBegins
    \/ ReCheckOrigins
    \/ ReCheckTargets
    \/ ReLists
    \/ ReMoves
    \/ ReDupsComments
    \/ ReDupsEpisodes
    \/ ReDupsSource
    \/ ReSwallows
    \/ ReDeletesWork
    \/ ReCommits
    \/ ReRaises
    \/ ReRollbacks
SpecReassoc == Init /\ [][NextReassoc]_vars

\* the call returns False in this step
ReturnsFailure == reassoc.pc # "done" /\ reassoc'.pc = "done" /\ ~reassoc'.ok

\* C39: when reassociate returns failure, the Works, Sources, Episodes and
\* Comments are those the call found
C39_FailureChangesNothing ==
    [][ReturnsFailure =>
         <<anime', anime_sources', episode', comment'>>
             = <<reassoc.pre.anime, reassoc.pre.anime_sources, reassoc.pre.episode,
                 reassoc.pre.comment>>]_vars

\* a call has returned False after its transaction had moved a Source to the
\* target, deleted a duplicate Source with its Episodes and deleted the origin
C39_Witness ==
    /\ reassoc.pc = "done" /\ ~reassoc.ok
    /\ Tables = reassoc.pre
    /\ \E x \in reassoc.pre.anime_sources :
          /\ x.anime_id = reassoc.a
          /\ [x EXCEPT !.anime_id = reassoc.b] \in reassoc.view.anime_sources
    /\ reassoc.view.episode # reassoc.pre.episode
    /\ reassoc.view.anime # reassoc.pre.anime

\* ------------------------------------------- reorder, update by update
\* single-episode imports at any of the first three indices, then reorders
AscendTargets == {1, 2, 3}
ImportAscendRequest ==
    /\ next_task < MaxTasks
    /\ \E tg \in AscendTargets : import_from_provider(EngineRequest, tg)

NextAscend ==
    \/ StartupReconcile
    \/ StartupEngine
    \/ ImportAscendRequest
    \/ ReorderRequest
    \/ WorkerPull
    \/ progress_callback
    \/ GetEpisodes
    \/ GetComments
    \/ W_Anime
    \/ W_Source
    \/ W_Episode
    \/ W_Comments
    \/ W_Count
    \/ O_List
    \/ O_Update
    \/ O_Commit
    \/ WorkerFinalizeKept
SpecAscend == Init /\ [][NextAscend]_vars

\* the listed episodes have pairwise distinct indices, all of them >= 1
DistinctFromOne(eps) ==
    /\ \A j \in 1..Len(eps) : eps[j].episode_index >= 1
    /\ \A j, k \in 1..Len(eps) : eps[j].episode_index = eps[k].episode_index => j = k

\* C40: no UPDATE of a reorder sets an episode to an index another episode
\* of the Source holds at that moment, and every reorder ends with its commit
C40_AscendingNeverCollides ==
    /\ (Running("o_update") /\ run.i <= Len(run.eps) /\ DistinctFromOne(run.eps))
           => ~DuplicateKey(run)
    /\ (Ended(run) /\ run.kind = "reorder") => run.exc = "success"

\* a reorder has committed in which an episode was set to the index that an
\* earlier episode of the list held when the task started
C40_Witness ==
    /\ Reordered(run)
    /\ \E j, k \in 1..Len(run.eps) :
          /\ k < j
          /\ run.eps[j].episode_index # j
          /\ run.eps[k].episode_index = j

====
